---- MODULE Spec2Model ----
(***************************************************************************)
(* Wallet Management API (FastAPI handlers over one BigQuery table).       *)
(*                                                                         *)
(* The table is the shared state.  Every handler of app/router/wallets.py  *)
(* is a sequence of blocking round trips to the storage client; a handler  *)
(* is modelled as one action per round trip, the local computation that    *)
(* follows a round trip (validation, uuid4(), datetime.now()) belonging to *)
(* the same action.  Procs are the server workers/instances that serve     *)
(* requests against the same table, so the round trips of two requests     *)
(* interleave; the table itself has no unique constraint (database.py).    *)
(***************************************************************************)
EXTENDS Integers, Sequences, FiniteSets, TLC

(***************************************************************************)
(* Bounds of the model.                                                    *)
(***************************************************************************)
MaxClock == 1
MaxRequests == 3

(***************************************************************************)
(* Program constants.                                                      *)
(***************************************************************************)
MAX_BULK == 100
ADDRESS_LENGTH == 42
HEX_DIGITS == 40

\* the workers whose requests interleave
Procs == {1, 2}

VARIABLES store, clock, nextId, started, pc, req, loc, resp, calls

\* a helper function applied on its own: its arguments and what it returned
VARIABLES args, result

vars == <<store, clock, nextId, started, pc, req, loc, resp, calls, args, result>>

(***************************************************************************)
(* Characters and strings.  A string is a sequence of one-character        *)
(* strings, so that prefix, length, character class and lower() are        *)
(* computed as Python computes them.                                       *)
(***************************************************************************)
Digits == {"0", "1", "2", "3", "4", "5", "6", "7", "8", "9"}
LowerHex == {"a", "b", "c", "d", "e", "f"}
UpperHex == {"A", "B", "C", "D", "E", "F"}

LowerChar(c) ==
    CASE c = "A" -> "a" [] c = "B" -> "b" [] c = "C" -> "c"
      [] c = "D" -> "d" [] c = "E" -> "e" [] c = "F" -> "f"
      [] c = "G" -> "g" [] c = "X" -> "x"
      [] OTHER -> c

\* str.lower()
Lower(s) == [i \in 1..Len(s) |-> LowerChar(s[i])]

\* str.startswith('0x')
StartsWith0x(s) == Len(s) >= 2 /\ s[1] = "0" /\ s[2] = "x"

\* the pattern without its character class
MatchesPrefixAndLength(s) == Len(s) = 2 + HEX_DIGITS /\ s[1] = "0" /\ s[2] = "x"

\* re.match(r'^0x[a-fA-F0-9]{40}$', address), on a string without newline
MatchesAddressRegex(s) ==
    /\ Len(s) = 2 + HEX_DIGITS
    /\ s[1] = "0"
    /\ s[2] = "x"
    /\ \A i \in 3..Len(s) : s[i] \in (LowerHex \cup UpperHex \cup Digits)

Ok(v) == [ok |-> TRUE, value |-> v, status |-> 200, detail |-> ""]
Raise(status, detail) == [ok |-> FALSE, value |-> <<>>, status |-> status, detail |-> detail]

\* validate_ethereum_address returning the address as given
validate_without_lower(address) ==
    IF ~StartsWith0x(address) \/ Len(address) # ADDRESS_LENGTH
    THEN Raise(400, "Invalid Ethereum address format")
    ELSE IF ~MatchesAddressRegex(address)
    THEN Raise(400, "Invalid Ethereum address format")
    ELSE Ok(address)

\* helpers.py validate_ethereum_address
validate_ethereum_address(address) ==
    IF ~StartsWith0x(address) \/ Len(address) # ADDRESS_LENGTH
    THEN Raise(400, "Invalid Ethereum address format")
    ELSE IF ~MatchesAddressRegex(address)
    THEN Raise(400, "Invalid Ethereum address format")
    ELSE Ok(Lower(address))

HexChars == Digits \cup LowerHex \cup UpperHex

\* str.replace('-', '')
WithoutHyphens(s) == SelectSeq(s, LAMBDA c : c # "-")

\* uuid.UUID(id_string), on a text of letters, digits and hyphens: the hyphens
\* are dropped and 32 hexadecimal digits must remain
IsUuidText(s) ==
    LET hex == WithoutHyphens(s) IN
    Len(hex) = 32 /\ \A i \in 1..Len(hex) : hex[i] \in HexChars

\* validate_wallet_id letting every text through
validate_any_id(id_string) == Ok(id_string)

\* helpers.py validate_wallet_id: the text is returned as it was given
validate_wallet_id(id_string) ==
    IF IsUuidText(id_string)
    THEN Ok(id_string)
    ELSE Raise(400, "Invalid wallet ID format")

DigitChar(d) ==
    CASE d = 0 -> "0" [] d = 1 -> "1" [] d = 2 -> "2" [] d = 3 -> "3" [] d = 4 -> "4"
      [] d = 5 -> "5" [] d = 6 -> "6" [] d = 7 -> "7" [] d = 8 -> "8" [] d = 9 -> "9"

Zeros(k) == [i \in 1..k |-> "0"]

\* the digits and hyphens that every identifier generated here starts with
Uuid4Zeros ==
    Zeros(8) \o <<"-">> \o Zeros(4) \o <<"-", "4">> \o Zeros(3) \o <<"-", "8">>
    \o Zeros(3) \o <<"-">> \o Zeros(10)

\* str(uuid.uuid4()): the canonical text, 8-4-4-4-12 lower-case digits, of the
\* n-th identifier generated (every call returns a fresh one)
str_uuid4(n) == Uuid4Zeros \o <<DigitChar(n \div 10), DigitChar(n % 10)>>

(***************************************************************************)
(* Request inputs.                                                         *)
(***************************************************************************)
MkAddr(x, c) == <<"0", x>> \o [i \in 1..HEX_DIGITS |-> c]

AddrA == MkAddr("x", "a")      \* valid, already lowercase
AddrAMixed == MkAddr("x", "A") \* valid, normalizes to AddrA
AddrAUpper == MkAddr("X", "A") \* AddrA.upper(): the prefix is upper-cased too
AddrB == MkAddr("x", "b")      \* valid, another address
AddrBad == MkAddr("x", "g")    \* 42 characters, not hexadecimal

\* identifiers a client asks for: the texts of the first two generated
IdInputs == {str_uuid4(1), str_uuid4(2)}

\* the first identifier written without hyphens: a UUID, and not the stored text
IdHyphenless == WithoutHyphens(str_uuid4(1))

\* 36 characters, one of them no hexadecimal digit; and a text too short
IdNotHex == [str_uuid4(1) EXCEPT ![1] = "g"]
IdShort == <<"1">>

OtherIdInputs == {IdHyphenless, IdNotHex, IdShort}

\* WalletCreate after input binding (is_active defaults to True)
Entry(a, s, act) == [address |-> a, score |-> s, is_active |-> act]

CreateInputs ==
    { Entry(AddrA, 5, TRUE), Entry(AddrAMixed, 5, TRUE), Entry(AddrAUpper, 5, TRUE),
      Entry(AddrB, 9, FALSE), Entry(AddrBad, 5, TRUE) }

AddrShort == <<"0", "x">> \o [i \in 1..(HEX_DIGITS - 1) |-> "a"]  \* 41 characters

\* request bodies of POST /wallets/ beside CreateInputs: is_active left out, a
\* score above and one below the range, an address of 41 characters
OtherCreateInputs ==
    { [address |-> AddrB, score |-> 5],
      Entry(AddrB, 11, TRUE), Entry(AddrB, -1, TRUE), Entry(AddrShort, 5, TRUE) }

\* WalletUpdate: a field that is None is a field absent from the record
Patches == { <<>>, [score |-> 9], [is_active |-> FALSE] }

\* the address parameters of GET /wallets/search/by-address
SearchInputs == {AddrAMixed, AddrBad, AddrShort}

\* a request body of PUT /wallets/{wallet_id} with a score above the range
PatchOutOfRange == [score |-> 11]

HasScore(patch) == "score" \in DOMAIN patch
HasActive(patch) == "is_active" \in DOMAIN patch

\* the request bodies of POST /wallets/bulk; a request names its body by position
BulkInputs ==
    << <<>>,
       <<Entry(AddrA, 5, TRUE), Entry(AddrAMixed, 9, TRUE)>>,
       <<Entry(AddrB, 5, TRUE), Entry(AddrA, 9, FALSE)>>,
       <<Entry(AddrB, 5, TRUE), Entry(AddrBad, 5, TRUE)>>,
       [i \in 1..MAX_BULK |-> IF i = MAX_BULK THEN Entry(AddrBad, 5, TRUE)
                                             ELSE Entry(AddrB, 5, TRUE)],
       [i \in 1..(MAX_BULK + 1) |-> IF i = 1 THEN Entry(AddrBad, 5, TRUE)
                                            ELSE Entry(AddrB, 5, TRUE)],
       <<Entry(AddrB, 5, TRUE), Entry(AddrA, 11, TRUE)>> >>

(***************************************************************************)
(* Responses and rows.                                                     *)
(***************************************************************************)
NoResp == [status |-> 0, detail |-> "", wallet |-> <<>>, ids |-> <<>>]
NoReq == [op |-> "none"]
NoLoc == <<>>

HTTPException(status, detail) ==
    [status |-> status, detail |-> detail, wallet |-> <<>>, ids |-> <<>>]

\* FastAPI's answer to a request whose body or query does not bind to its model
RequestValidationError == HTTPException(422, "Unprocessable Entity")

MIN_SCORE == 0
MAX_SCORE == 10

\* Field(..., ge=0, le=10) accepting every integer
AnyScore(score) == score \in Int

\* models/wallet.py: score: int = Field(..., ge=0, le=10)
ScoreInRange(score) == score \in Int /\ score >= MIN_SCORE /\ score <= MAX_SCORE

\* a WalletCreate whose is_active has no default of True
WalletCreateInactive(body) ==
    IF Len(body.address) = ADDRESS_LENGTH /\ ScoreInRange(body.score)
    THEN Ok(Entry(body.address, body.score,
                  IF "is_active" \in DOMAIN body THEN body.is_active ELSE FALSE))
    ELSE Raise(422, "Unprocessable Entity")

\* models/wallet.py WalletCreate: address of 42 characters, score in range,
\* is_active True when the body leaves it out
WalletCreate(body) ==
    IF Len(body.address) = ADDRESS_LENGTH /\ ScoreInRange(body.score)
    THEN Ok(Entry(body.address, body.score,
                  IF "is_active" \in DOMAIN body THEN body.is_active ELSE TRUE))
    ELSE Raise(422, "Unprocessable Entity")

\* models/wallet.py WalletUpdate: both fields optional, a score given is in range
WalletUpdate(body) ==
    IF HasScore(body) => ScoreInRange(body.score)
    THEN Ok(body)
    ELSE Raise(422, "Unprocessable Entity")

\* List[WalletCreate]: every entry binds, or the request is refused
ListWalletCreate(body) ==
    IF \A i \in 1..Len(body) : WalletCreate(body[i]).ok
    THEN Ok([i \in 1..Len(body) |-> WalletCreate(body[i]).value])
    ELSE Raise(422, "Unprocessable Entity")

Row(id, address, score, is_active, created_at, last_updated) ==
    [id |-> id, address |-> address, score |-> score, is_active |-> is_active,
     created_at |-> created_at, last_updated |-> last_updated]

\* Wallet.from_bigquery_row: the row's six columns as a wire record
from_bigquery_row(row) ==
    Row(row.id, row.address, row.score, row.is_active, row.created_at, row.last_updated)

\* a SELECT without its WHERE clause
SelectWithoutWhere(id) == store

\* SELECT ... WHERE id = @wallet_id LIMIT 1 (ids are unique: uuid4)
SelectById(id) == {r \in store : r.id = id}

\* SELECT ... WHERE address = @address (before its LIMIT 1)
SelectByAddress(address) == {r \in store : r.address = address}

\* SELECT COUNT(*) ... WHERE address = @address
CountByAddress(address) == Cardinality({r \in store : r.address = address})

NoArgs == [fn |-> "none"]
NoResult == [ok |-> FALSE, value |-> <<>>, status |-> 0, detail |-> ""]

Init ==
    /\ args = NoArgs
    /\ result = NoResult
    /\ store = {}
    /\ clock = 0
    /\ nextId = 0
    /\ started = 0
    /\ pc = [p \in Procs |-> "idle"]
    /\ req = [p \in Procs |-> NoReq]
    /\ loc = [p \in Procs |-> NoLoc]
    /\ resp = [p \in Procs |-> NoResp]
    /\ calls = [p \in Procs |-> <<>>]

\* the handler of p returns (or raises) r
Return(p, r) ==
    /\ pc' = [pc EXCEPT ![p] = "idle"]
    /\ loc' = [loc EXCEPT ![p] = NoLoc]
    /\ resp' = [resp EXCEPT ![p] = r]

\* the handler of p goes on to its next round trip
Goto(p, label, locals) ==
    /\ pc' = [pc EXCEPT ![p] = label]
    /\ loc' = [loc EXCEPT ![p] = locals]
    /\ resp' = [resp EXCEPT ![p] = NoResp]

\* a request is handed to the first idle worker, p, and its handler starts
Accept(p, request) ==
    /\ pc[p] = "idle"
    /\ \A q \in Procs : q < p => pc[q] # "idle"
    /\ started < MaxRequests
    /\ started' = started + 1
    /\ req' = [req EXCEPT ![p] = request]

\* the storage client calls the request of p has issued so far
Issued(p, statements) == calls' = [calls EXCEPT ![p] = statements]

\* datetime.now(timezone.utc) advances between any two steps
Tick ==
    /\ clock < MaxClock
    /\ clock' = clock + 1
    /\ UNCHANGED <<store, nextId, started, pc, req, loc, resp, calls, args, result>>

(***************************************************************************)
(* POST /wallets/  create_wallet                                           *)
(***************************************************************************)
\* lines 158-181: validate, existence check, uuid4(), now
CreateCheck(p, wallet_data) ==
    LET bound == WalletCreate(wallet_data)
        v == validate_ethereum_address(bound.value.address)
    IN
    /\ Accept(p, [op |-> "create", wallet_data |-> wallet_data])
    /\ store' = store
    /\ IF ~bound.ok
       THEN /\ Return(p, HTTPException(bound.status, bound.detail))
            /\ Issued(p, <<>>)
            /\ nextId' = nextId
       ELSE IF ~v.ok
       THEN /\ Return(p, HTTPException(v.status, v.detail))
            /\ Issued(p, <<>>)
            /\ nextId' = nextId
       ELSE IF CountByAddress(v.value) > 0
       THEN /\ Return(p, HTTPException(400, "Wallet address already exists"))
            /\ Issued(p, <<"SELECT">>)
            /\ nextId' = nextId
       ELSE /\ nextId' = nextId + 1
            /\ Issued(p, <<"SELECT">>)
            /\ Goto(p, "create_insert",
                    [address |-> v.value, wallet_id |-> str_uuid4(nextId + 1), now |-> clock])
    /\ UNCHANGED <<clock, args, result>>

\* an insert that is one atomic step with the existence check
InsertIfAbsent(table, row) ==
    IF \E r \in table : r.address = row.address THEN table ELSE table \cup {row}

\* lines 183-198: INSERT INTO ... VALUES (...): no condition, no constraint
InsertStatement(table, row) == table \cup {row}

\* lines 183-208: the INSERT statement, then the response
CreateInsert(p) ==
    LET l == loc[p]
        d == WalletCreate(req[p].wallet_data).value
        w == Row(l.wallet_id, l.address, d.score, d.is_active, l.now, l.now)
    IN
    /\ pc[p] = "create_insert"
    /\ store' = InsertStatement(store, w)
    /\ Issued(p, Append(calls[p], "INSERT"))
    /\ Return(p, [status |-> 201, detail |-> "", wallet |-> <<w>>, ids |-> <<>>])
    /\ UNCHANGED <<clock, nextId, started, req, args, result>>

(***************************************************************************)
(* GET /wallets/{wallet_id}  get_wallet                                    *)
(***************************************************************************)
\* lines 93-113: one SELECT, then the response
GetWallet(p, wallet_id) ==
    LET validated_id == validate_wallet_id(wallet_id)
        rows == SelectById(validated_id.value)
    IN
    /\ Accept(p, [op |-> "get", wallet_id |-> wallet_id])
    /\ IF ~validated_id.ok
       THEN /\ Return(p, HTTPException(validated_id.status, validated_id.detail))
            /\ Issued(p, <<>>)
       ELSE /\ IF rows = {}
               THEN Return(p, HTTPException(404, "Wallet not found"))
               ELSE Return(p, [status |-> 200, detail |-> "",
                               wallet |-> <<from_bigquery_row(CHOOSE r \in rows : TRUE)>>,
                               ids |-> <<>>])
            /\ Issued(p, <<"SELECT">>)
    /\ UNCHANGED <<store, clock, nextId, args, result>>

(***************************************************************************)
(* GET /wallets/search/by-address  search_wallet_by_address                *)
(***************************************************************************)
\* address: str = Query(..., min_length=42, max_length=42)
QueryAddress(address) ==
    IF Len(address) = ADDRESS_LENGTH THEN Ok(address)
                                     ELSE Raise(422, "Unprocessable Entity")

\* lines 121-145: binding, validation, one SELECT with LIMIT 1 (which of
\* several rows with the address it returns is the backend's choice)
SearchByAddress(p, address) ==
    LET bound == QueryAddress(address)
        validated_address == validate_ethereum_address(bound.value)
        rows == SelectByAddress(validated_address.value)
    IN
    /\ Accept(p, [op |-> "search", address |-> address])
    /\ IF ~bound.ok
       THEN /\ Return(p, HTTPException(bound.status, bound.detail))
            /\ Issued(p, <<>>)
       ELSE IF ~validated_address.ok
       THEN /\ Return(p, HTTPException(validated_address.status, validated_address.detail))
            /\ Issued(p, <<>>)
       ELSE /\ IF rows = {}
               THEN Return(p, HTTPException(404, "Wallet not found"))
               ELSE \E r \in rows :
                       Return(p, [status |-> 200, detail |-> "",
                                  wallet |-> <<from_bigquery_row(r)>>, ids |-> <<>>])
            /\ Issued(p, <<"SELECT">>)
    /\ UNCHANGED <<store, clock, nextId, args, result>>

(***************************************************************************)
(* PUT /wallets/{wallet_id}  update_wallet                                 *)
(***************************************************************************)
\* lines 276-280: the response record, built from the row read by the check
ApplyPatchToWallet(w, patch, now) ==
    [w EXCEPT !.score = IF HasScore(patch) THEN patch.score ELSE @,
              !.is_active = IF HasActive(patch) THEN patch.is_active ELSE @,
              !.last_updated = now]

\* an UPDATE that refreshes last_updated only when a value changes
UpdateStatementIfChanged(table, wallet_id, patch, now) ==
    { IF r.id = wallet_id
      THEN LET score == IF HasScore(patch) THEN patch.score ELSE r.score
               is_active == IF HasActive(patch) THEN patch.is_active ELSE r.is_active
           IN [r EXCEPT !.score = score,
                        !.is_active = is_active,
                        !.last_updated = IF score = r.score /\ is_active = r.is_active
                                         THEN @ ELSE now]
      ELSE r : r \in table }

\* an UPDATE that stamps created_at in place of last_updated
UpdateStatementStampsCreated(table, wallet_id, patch, now) ==
    { IF r.id = wallet_id
      THEN [r EXCEPT !.score = IF HasScore(patch) THEN patch.score ELSE @,
                     !.is_active = IF HasActive(patch) THEN patch.is_active ELSE @,
                     !.created_at = now]
      ELSE r : r \in table }

\* lines 249-269: UPDATE ... SET <fields of the patch>, last_updated WHERE id
UpdateStatement(table, wallet_id, patch, now) ==
    { IF r.id = wallet_id
      THEN [r EXCEPT !.score = IF HasScore(patch) THEN patch.score ELSE @,
                     !.is_active = IF HasActive(patch) THEN patch.is_active ELSE @,
                     !.last_updated = now]
      ELSE r : r \in table }

\* lines 257-259: an empty patch issues no UPDATE
NoFieldsToUpdate(patch) == ~HasScore(patch) /\ ~HasActive(patch)

\* lines 236-263: existence check, the update fields, now
UpdateCheck(p, wallet_id, patch) ==
    LET bound == WalletUpdate(patch)
        validated_id == validate_wallet_id(wallet_id)
        rows == SelectById(validated_id.value)
    IN
    /\ Accept(p, [op |-> "update", wallet_id |-> wallet_id, patch |-> patch])
    /\ IF ~bound.ok
       THEN /\ Return(p, HTTPException(bound.status, bound.detail))
            /\ Issued(p, <<>>)
       ELSE IF ~validated_id.ok
       THEN /\ Return(p, HTTPException(validated_id.status, validated_id.detail))
            /\ Issued(p, <<>>)
       ELSE /\ IF rows = {}
               THEN Return(p, HTTPException(404, "Wallet not found"))
               ELSE LET existing_wallet == CHOOSE r \in rows : TRUE IN
                    IF NoFieldsToUpdate(patch)
                    THEN Return(p, [status |-> 200, detail |-> "",
                                    wallet |-> <<from_bigquery_row(existing_wallet)>>,
                                    ids |-> <<>>])
                    ELSE Goto(p, "update_write",
                              [existing_wallet |-> existing_wallet, now |-> clock])
            /\ Issued(p, <<"SELECT">>)
    /\ UNCHANGED <<store, clock, nextId, args, result>>

\* lines 265-282: the UPDATE statement, then the response
UpdateWrite(p) ==
    LET l == loc[p]
        r == req[p]
    IN
    /\ pc[p] = "update_write"
    /\ store' = UpdateStatement(store, r.wallet_id, r.patch, l.now)
    /\ Issued(p, Append(calls[p], "UPDATE"))
    /\ Return(p, [status |-> 200, detail |-> "",
                  wallet |-> <<ApplyPatchToWallet(from_bigquery_row(l.existing_wallet),
                                                  r.patch, l.now)>>,
                  ids |-> <<>>])
    /\ UNCHANGED <<clock, nextId, started, req, args, result>>

(***************************************************************************)
(* DELETE /wallets/{wallet_id}  delete_wallet                              *)
(***************************************************************************)
\* lines 309-316: the SELECT whose row becomes the response's deleted_wallet
DeleteCheck(p, wallet_id) ==
    LET validated_id == validate_wallet_id(wallet_id)
        rows == SelectById(validated_id.value)
    IN
    /\ Accept(p, [op |-> "delete", wallet_id |-> wallet_id])
    /\ IF ~validated_id.ok
       THEN /\ Return(p, HTTPException(validated_id.status, validated_id.detail))
            /\ Issued(p, <<>>)
       ELSE /\ IF rows = {}
               THEN Return(p, HTTPException(404, "Wallet not found"))
               ELSE Goto(p, "delete_remove",
                         [wallet |-> from_bigquery_row(CHOOSE r \in rows : TRUE)])
            /\ Issued(p, <<"SELECT">>)
    /\ UNCHANGED <<store, clock, nextId, args, result>>

\* a soft delete: the row is kept and marked inactive
SoftDelete(table, wallet_id) ==
    {IF r.id = wallet_id THEN [r EXCEPT !.is_active = FALSE] ELSE r : r \in table}

\* lines 319-321: DELETE FROM ... WHERE id = @wallet_id
DeleteStatement(table, wallet_id) == {r \in table : r.id # wallet_id}

\* lines 318-329: the DELETE statement, then the response
DeleteRemove(p) ==
    /\ pc[p] = "delete_remove"
    /\ store' = DeleteStatement(store, req[p].wallet_id)
    /\ Issued(p, Append(calls[p], "DELETE"))
    /\ Return(p, [status |-> 200, detail |-> "Wallet deleted successfully",
                  wallet |-> <<loc[p].wallet>>, ids |-> <<>>])
    /\ UNCHANGED <<clock, nextId, started, req, args, result>>

(***************************************************************************)
(* POST /wallets/bulk  bulk_create_wallets                                 *)
(***************************************************************************)
\* lines 346-349: the addresses are validated in order, the first failure raises
ValidateAll(wallets) ==
    LET invalid == {i \in 1..Len(wallets) :
                      ~validate_ethereum_address(wallets[i].address).ok}
    IN
    IF invalid # {}
    THEN validate_ethereum_address(
             wallets[CHOOSE i \in invalid : \A j \in invalid : i <= j].address)
    ELSE Ok([i \in 1..Len(wallets) |-> validate_ethereum_address(wallets[i].address).value])

\* lines 354-369: SELECT address ... WHERE address IN (@addr_0, ...)
ExistingAddresses(validated_addresses) ==
    {r.address : r \in {x \in store : \E i \in 1..Len(validated_addresses) :
                                         x.address = validated_addresses[i]}}

\* the existence test looking at the first entry only
FirstAlreadyExists(validated_addresses, existing_addresses) ==
    validated_addresses[1] \in existing_addresses

\* an existence test that also compares the entries of the batch with each other
AnyAlreadyExistsOrRepeats(validated_addresses, existing_addresses) ==
    \/ \E i \in 1..Len(validated_addresses) : validated_addresses[i] \in existing_addresses
    \/ \E i, j \in 1..Len(validated_addresses) :
          i # j /\ validated_addresses[i] = validated_addresses[j]

\* lines 372-377: only membership in the existing rows is tested
AnyAlreadyExists(validated_addresses, existing_addresses) ==
    \E i \in 1..Len(validated_addresses) : validated_addresses[i] \in existing_addresses

\* rows that all carry one uuid4() made for the batch
RowsToInsertOneId(wallets, validated_addresses, firstId, now) ==
    [i \in 1..Len(wallets) |->
        Row(str_uuid4(firstId), validated_addresses[i], wallets[i].score,
            wallets[i].is_active, now, now)]

\* lines 380-391: one now for the batch, one uuid4() per entry
RowsToInsert(wallets, validated_addresses, firstId, now) ==
    [i \in 1..Len(wallets) |->
        Row(str_uuid4(firstId + i - 1), validated_addresses[i], wallets[i].score,
            wallets[i].is_active, now, now)]

\* the binding and lines 346-349 for every request body (they read no state)
bound_wallets == [k \in DOMAIN BulkInputs |-> ListWalletCreate(BulkInputs[k])]

validated_addresses ==
    [k \in DOMAIN BulkInputs |->
        IF bound_wallets[k].ok THEN ValidateAll(bound_wallets[k].value)
                               ELSE bound_wallets[k]]

\* the size limit off by one
TooLargeFrom100(wallets) == Len(wallets) >= MAX_BULK

\* line 342: the size limit
TooLarge(wallets) == Len(wallets) > MAX_BULK

\* lines 342-391: size limit, validation, existence check, the rows to insert
BulkCheck(p, body) ==
    LET bound == bound_wallets[body]
        wallets == bound.value
        v == validated_addresses[body]
    IN
    /\ Accept(p, [op |-> "bulk", body |-> body])
    /\ store' = store
    /\ UNCHANGED <<clock, args, result>>
    /\ IF ~bound.ok
       THEN /\ Return(p, HTTPException(bound.status, bound.detail))
            /\ Issued(p, <<>>)
            /\ nextId' = nextId
       ELSE IF TooLarge(wallets)
       THEN /\ Return(p, HTTPException(400, "Maximum 100 wallets per bulk operation"))
            /\ Issued(p, <<>>)
            /\ nextId' = nextId
       ELSE IF ~v.ok
       THEN /\ Return(p, HTTPException(v.status, v.detail))
            /\ Issued(p, <<>>)
            /\ nextId' = nextId
       ELSE IF v.value = <<>>
       THEN /\ Return(p, [status |-> 201, detail |-> "No wallets to insert",
                          wallet |-> <<>>, ids |-> <<>>])
            /\ Issued(p, <<>>)
            /\ nextId' = nextId
       ELSE IF AnyAlreadyExists(v.value, ExistingAddresses(v.value))
       THEN /\ Return(p, HTTPException(400, "Wallet address already exists"))
            /\ Issued(p, <<"SELECT">>)
            /\ nextId' = nextId
       ELSE /\ nextId' = nextId + Len(wallets)
            /\ Issued(p, <<"SELECT">>)
            /\ Goto(p, "bulk_insert",
                    [rows_to_insert |-> RowsToInsert(wallets, v.value, nextId + 1, clock)])

\* lines 394-395: get_table, then insert_rows_json(table, rows_to_insert)
InsertRowsJson(table, rows) == table \cup {rows[i] : i \in 1..Len(rows)}

\* lines 394-403: the streaming insert, then the response
BulkInsert(p) ==
    LET rows == loc[p].rows_to_insert IN
    /\ pc[p] = "bulk_insert"
    /\ store' = InsertRowsJson(store, rows)
    /\ Issued(p, calls[p] \o <<"get_table", "insert_rows_json">>)
    /\ Return(p, [status |-> 201, detail |-> "Successfully created wallets",
                  wallet |-> <<>>, ids |-> [i \in 1..Len(rows) |-> rows[i].id]])
    /\ UNCHANGED <<clock, nextId, started, req, args, result>>

\* the request bodies of BulkInputs that bind (their entries' scores are in range)
BoundBulkInputs == {b \in DOMAIN BulkInputs : bound_wallets[b].ok}

Next ==
    \/ Tick
    \/ \E p \in Procs : \E d \in CreateInputs : CreateCheck(p, d)
    \/ \E p \in Procs : CreateInsert(p)
    \/ \E p \in Procs : \E i \in IdInputs : GetWallet(p, i)
    \/ \E p \in Procs : \E i \in IdInputs : \E patch \in Patches : UpdateCheck(p, i, patch)
    \/ \E p \in Procs : UpdateWrite(p)
    \/ \E p \in Procs : \E i \in IdInputs : DeleteCheck(p, i)
    \/ \E p \in Procs : DeleteRemove(p)
    \/ \E p \in Procs : \E b \in BoundBulkInputs : BulkCheck(p, b)
    \/ \E p \in Procs : BulkInsert(p)

\* the requests that reach the handlers' storage calls, interleaved
Spec == Init /\ [][Next]_vars

(***************************************************************************)
(* The same handlers under the requests that input binding or validation   *)
(* refuses, beside a few that succeed.                                     *)
(***************************************************************************)
RequestCreateInputs ==
    { Entry(AddrA, 5, TRUE), Entry(AddrBad, 5, TRUE) } \cup OtherCreateInputs

RequestIdInputs == {str_uuid4(1)} \cup OtherIdInputs

\* one body that is persisted, and the bodies with an entry that is refused
RequestBulkInputs == {b \in DOMAIN BulkInputs : b = 2 \/ b >= 4}

NextRequests ==
    \/ Tick
    \/ \E p \in Procs : \E d \in RequestCreateInputs : CreateCheck(p, d)
    \/ \E p \in Procs : CreateInsert(p)
    \/ \E p \in Procs : \E i \in RequestIdInputs : GetWallet(p, i)
    \/ \E p \in Procs : \E a \in SearchInputs : SearchByAddress(p, a)
    \/ \E p \in Procs : \E i \in RequestIdInputs : UpdateCheck(p, i, [score |-> 9])
    \/ \E p \in Procs : UpdateCheck(p, str_uuid4(1), PatchOutOfRange)
    \/ \E p \in Procs : \E i \in RequestIdInputs : DeleteCheck(p, i)
    \/ \E p \in Procs : DeleteRemove(p)
    \/ \E p \in Procs : \E b \in RequestBulkInputs : BulkCheck(p, b)
    \/ \E p \in Procs : BulkInsert(p)
    \/ \E p \in Procs : UpdateWrite(p)

SpecRequests == Init /\ [][NextRequests]_vars

(***************************************************************************)
(* validate_ethereum_address applied on its own to texts around the        *)
(* accepted form: four prefixes, 39 to 41 characters after the prefix, one *)
(* character of them set apart from the rest.                              *)
(***************************************************************************)
\* no request is in flight and the table is empty
NoRequests ==
    /\ store = {}
    /\ clock = 0
    /\ nextId = 0
    /\ started = 0
    /\ pc = [p \in Procs |-> "idle"]
    /\ req = [p \in Procs |-> NoReq]
    /\ loc = [p \in Procs |-> NoLoc]
    /\ resp = [p \in Procs |-> NoResp]
    /\ calls = [p \in Procs |-> <<>>]

handlers == <<store, clock, nextId, started, pc, req, loc, resp, calls>>

AddressTexts ==
    { prefix \o [i \in 1..n |-> IF i = k THEN c ELSE d] :
        prefix \in {<<"0", "x">>, <<"0", "X">>, <<"1", "x">>, <<"x", "0">>},
        n \in (HEX_DIGITS - 1)..(HEX_DIGITS + 1),
        k \in {1, HEX_DIGITS, HEX_DIGITS + 1},
        c \in {"a", "F", "9", "g", "G"},
        d \in {"b", "D", "0"} }

InitValidate ==
    /\ NoRequests
    /\ args \in {[fn |-> "validate_ethereum_address", address |-> a] : a \in AddressTexts}
    /\ result = NoResult

\* helpers.py 13-22, called once
ValidateAddress ==
    /\ args.fn = "validate_ethereum_address"
    /\ result = NoResult
    /\ result' = validate_ethereum_address(args.address)
    /\ UNCHANGED <<args, handlers>>

NextValidate == ValidateAddress

SpecValidate == InitValidate /\ [][NextValidate]_vars

(***************************************************************************)
(* GET /wallets/  get_wallets, and the helpers that build its query.  A    *)
(* query text is the sequence of its fragments: the fixed fragments of the *)
(* f-string and, between them, the values formatted into it.               *)
(***************************************************************************)
\* a Python value with its class: isinstance(True, int) holds, True == 1
PyInt(n) == [class |-> "int", value |-> n]
PyBool(b) == [class |-> "bool", value |-> IF b THEN 1 ELSE 0]

\* helpers.py 24-44: the conditions joined with AND, and their parameters
build_wallet_query_conditions(active_only, min_score, max_score) ==
    [where_clause |->
         <<"score >= @min_score AND score <= @max_score">>
         \o (IF active_only THEN <<"AND", "is_active = @is_active">> ELSE <<>>),
     params |->
         <<[name |-> "min_score", value |-> PyInt(min_score)],
           [name |-> "max_score", value |-> PyInt(max_score)]>>
         \o (IF active_only THEN <<[name |-> "is_active", value |-> PyBool(TRUE)]>>
                            ELSE <<>>)]

valid_sort_fields == {"created_at", "score", "address", "last_updated", "is_active"}

\* build_sort_clause formatting sort_by as it is given
build_sort_clause_unchecked(sort_by, sort_order) ==
    <<"ORDER BY", sort_by, IF sort_order = 1 THEN "ASC" ELSE "DESC">>

\* helpers.py 50-58
build_sort_clause(sort_by, sort_order) ==
    <<"ORDER BY",
      IF sort_by \notin valid_sort_fields THEN "created_at" ELSE sort_by,
      IF sort_order = 1 THEN "ASC" ELSE "DESC">>

\* wallets.py 51-58: the first isinstance test that holds gives the type
TypedQueryParameter(name, value) ==
    [name |-> name,
     type |-> IF value.class \in {"int", "bool"} THEN "INT64"
              ELSE IF value.class = "bool" THEN "BOOL"
              ELSE "STRING",
     value |-> value.value]

\* wallets.py 33-58: the query text and its typed parameters
ListQuery(q) ==
    LET c == build_wallet_query_conditions(q.active_only, q.min_score, q.max_score)
        params == c.params \o <<[name |-> "limit", value |-> PyInt(q.limit)],
                                [name |-> "offset", value |-> PyInt(q.offset)]>>
    IN [statement |-> "SELECT",
        text |-> <<"SELECT id, address, score, is_active, created_at, last_updated FROM wallets WHERE">>
                 \o c.where_clause
                 \o build_sort_clause(q.sort_by, q.sort_order)
                 \o <<"LIMIT @limit OFFSET @offset">>,
        params |-> [i \in 1..Len(params) |->
                       TypedQueryParameter(params[i].name, params[i].value)]]

(***************************************************************************)
(* The backend's reading of a list query: the rows that pass the WHERE     *)
(* clause, in an order that satisfies ORDER BY (rows with equal keys in    *)
(* any order), cut by OFFSET and LIMIT.                                    *)
(***************************************************************************)
Range(s) == {s[i] : i \in 1..Len(s)}
IndexOf(s, x) == CHOOSE i \in 1..Len(s) : s[i] = x
Min(a, b) == IF a <= b THEN a ELSE b

\* the characters of identifiers and addresses in their code-point order
CharOrder ==
    <<"-", "0", "1", "2", "3", "4", "5", "6", "7", "8", "9",
      "A", "B", "C", "D", "E", "F", "G", "X",
      "a", "b", "c", "d", "e", "f", "g", "x">>

CharRank(c) == IndexOf(CharOrder, c)

LexLess(s, t) ==
    \/ Len(s) < Len(t) /\ \A j \in 1..Len(s) : s[j] = t[j]
    \/ \E i \in 1..Min(Len(s), Len(t)) :
          /\ \A j \in 1..(i - 1) : s[j] = t[j]
          /\ CharRank(s[i]) < CharRank(t[i])

\* database.py 54-61: the columns of the table
Columns == {"id", "address", "score", "is_active", "created_at", "last_updated"}

\* r1 sorts strictly before r2 by the column
ColumnLess(r1, r2, column) ==
    CASE column = "id" -> LexLess(r1.id, r2.id)
      [] column = "address" -> LexLess(r1.address, r2.address)
      [] column = "score" -> r1.score < r2.score
      [] column = "is_active" -> ~r1.is_active /\ r2.is_active
      [] column = "created_at" -> r1.created_at < r2.created_at
      [] column = "last_updated" -> r1.last_updated < r2.last_updated

\* the sequences of all the rows that ORDER BY column direction allows
Orderings(rows, column, direction) ==
    LET n == Cardinality(rows) IN
    { seq \in [1..n -> rows] :
        /\ \A r \in rows : \E i \in 1..n : seq[i] = r
        /\ \A i, j \in 1..n :
              i < j => IF direction = "ASC" THEN ~ColumnLess(seq[j], seq[i], column)
                                            ELSE ~ColumnLess(seq[i], seq[j], column) }

\* LIMIT limit OFFSET offset
Page(seq, limit, offset) == SubSeq(seq, offset + 1, Min(Len(seq), offset + limit))

ParameterOf(query, name) ==
    query.params[CHOOSE i \in 1..Len(query.params) : query.params[i].name = name]

\* a parameter typed INT64 is compared with the BOOLEAN column: the query fails
ListQueryFails(query) ==
    /\ "is_active = @is_active" \in Range(query.text)
    /\ ParameterOf(query, "is_active").type # "BOOL"

\* the answers the backend may give to the query of get_wallets
ListQueryResults(table, query) ==
    LET rows == { r \in table :
                    /\ r.score >= ParameterOf(query, "min_score").value
                    /\ r.score <= ParameterOf(query, "max_score").value
                    /\ "is_active = @is_active" \in Range(query.text) => r.is_active }
        at == IndexOf(query.text, "ORDER BY")
    IN { Page(seq, ParameterOf(query, "limit").value, ParameterOf(query, "offset").value) :
           seq \in Orderings(rows, query.text[at + 1], query.text[at + 2]) }

\* wallets.py 22-28: Query(ge=, le=) of the list parameters
MAX_LIMIT == 1000

ListParameters(q) ==
    IF /\ ScoreInRange(q.min_score)
       /\ ScoreInRange(q.max_score)
       /\ q.limit >= 1 /\ q.limit <= MAX_LIMIT
       /\ q.offset >= 0
    THEN Ok(q)
    ELSE Raise(422, "Unprocessable Entity")

\* wallets.py 20-67: binding, the query, one round trip, the response
GetWallets(p, q) ==
    LET bound == ListParameters(q)
        query == ListQuery(q)
    IN
    /\ Accept(p, [op |-> "list", q |-> q])
    /\ IF ~bound.ok
       THEN /\ Return(p, HTTPException(bound.status, bound.detail))
            /\ Issued(p, <<>>)
       ELSE /\ IF ListQueryFails(query)
               THEN Return(p, HTTPException(500, "Query failed"))
               ELSE \E results \in ListQueryResults(store, query) :
                       Return(p, [status |-> 200, detail |-> "",
                                  wallet |-> [i \in 1..Len(results) |->
                                                 from_bigquery_row(results[i])],
                                  ids |-> <<>>])
            /\ Issued(p, <<query>>)
    /\ UNCHANGED <<store, clock, nextId, args, result>>

(***************************************************************************)
(* GET /wallets (HTML)  frontend.py get_wallets_html.  Its parameters are  *)
(* formatted into the query text.                                          *)
(***************************************************************************)
\* str(n) and its inverse for the integers of the list requests
IntTexts ==
    { <<-1, "-1">>, <<0, "0">>, <<1, "1">>, <<2, "2">>, <<3, "3">>, <<4, "4">>,
      <<5, "5">>, <<6, "6">>, <<7, "7">>, <<8, "8">>, <<9, "9">>, <<10, "10">>,
      <<11, "11">> }

IntText(n) == (CHOOSE pr \in IntTexts : pr[1] = n)[2]
TextInt(t) == (CHOOSE pr \in IntTexts : pr[2] = t)[1]

\* frontend.py 36-44: the conditions, joined with AND
HtmlWhereClause(q) ==
    <<"score >=", IntText(q.min_score), "AND", "score <=", IntText(q.max_score)>>
    \o (IF q.active_only THEN <<"AND", "is_active = TRUE">> ELSE <<>>)

\* frontend.py 47-56
HtmlWalletsQuery(q) ==
    [statement |-> "SELECT",
     text |-> <<"SELECT id, address, score, is_active, created_at, last_updated FROM wallets WHERE">>
              \o HtmlWhereClause(q)
              \o <<"ORDER BY", q.sort_by, IF q.sort_order = -1 THEN "DESC" ELSE "ASC",
                   "LIMIT", IntText(q.limit), "OFFSET", IntText(q.offset)>>,
     params |-> <<>>]

\* frontend.py 72-76
HtmlCountQuery(q) ==
    [statement |-> "SELECT",
     text |-> <<"SELECT COUNT(*) as total_count FROM wallets WHERE">> \o HtmlWhereClause(q),
     params |-> <<>>]

\* the literal that follows a fragment of the text
After(text, fragment) == text[IndexOf(text, fragment) + 1]

\* the rows that pass the WHERE clause written with literals
HtmlWhereRows(table, text) ==
    { r \in table :
        /\ r.score >= TextInt(After(text, "score >="))
        /\ r.score <= TextInt(After(text, "score <="))
        /\ "is_active = TRUE" \in Range(text) => r.is_active }

\* the backend refuses a text that orders by no column or pages by a
\* negative number
HtmlQueryFails(query) ==
    \/ After(query.text, "ORDER BY") \notin Columns
    \/ TextInt(After(query.text, "LIMIT")) < 0
    \/ TextInt(After(query.text, "OFFSET")) < 0

HtmlQueryResults(table, query) ==
    LET at == IndexOf(query.text, "ORDER BY") IN
    { Page(seq, TextInt(After(query.text, "LIMIT")), TextInt(After(query.text, "OFFSET"))) :
        seq \in Orderings(HtmlWhereRows(table, query.text),
                          query.text[at + 1], query.text[at + 2]) }

\* Python's //, for a divisor that is not 0
FloorDiv(a, b) == IF b > 0 THEN a \div b ELSE (0 - a) \div (0 - b)

Max(a, b) == IF a >= b THEN a ELSE b

\* frontend.py 84-93: the template context; offset // limit raises
\* ZeroDivisionError outside the try block when limit is 0
TemplateResponse(q, wallets, total_count) ==
    IF q.limit = 0
    THEN HTTPException(500, "Internal Server Error")
    ELSE [status |-> 200, detail |-> "", wallet |-> wallets, ids |-> <<>>,
          page |-> [total_count |-> total_count,
                    current_page |-> FloorDiv(q.offset, q.limit) + 1,
                    total_pages |-> Max(1, FloorDiv(total_count + q.limit - 1, q.limit)),
                    limit |-> q.limit,
                    has_previous |-> q.offset > 0,
                    has_next |-> q.offset + q.limit < total_count]]

\* frontend.py 34-69, 80-93: the first query; when it fails the handler
\* renders an empty list with total_count 0
GetWalletsHtml(p, q) ==
    LET wallets_query == HtmlWalletsQuery(q) IN
    /\ Accept(p, [op |-> "list_html", q |-> q])
    /\ Issued(p, <<wallets_query>>)
    /\ IF HtmlQueryFails(wallets_query)
       THEN Return(p, TemplateResponse(q, <<>>, 0))
       ELSE \E results \in HtmlQueryResults(store, wallets_query) :
               Goto(p, "html_count", [wallets |-> results])
    /\ UNCHANGED <<store, clock, nextId, args, result>>

\* frontend.py 71-93: the count query, then the template
HtmlCount(p) ==
    LET count_query == HtmlCountQuery(req[p].q)
        total_count == Cardinality(HtmlWhereRows(store, count_query.text))
    IN
    /\ pc[p] = "html_count"
    /\ Issued(p, Append(calls[p], count_query))
    /\ Return(p, TemplateResponse(req[p].q, loc[p].wallets, total_count))
    /\ UNCHANGED <<store, clock, nextId, started, req, args, result>>

\* the tables a list request may find: any of three records, two of them with
\* the same score and two created at the same time
AddrC == MkAddr("x", "c")

ListRecords ==
    { Row(str_uuid4(1), AddrA, 5, TRUE, 0, 0),
      Row(str_uuid4(2), AddrB, 9, FALSE, 0, MaxClock),
      Row(str_uuid4(3), AddrC, 5, FALSE, MaxClock, MaxClock) }

\* the query parameters of a list request, as FastAPI parsed them
ListInput(active_only, min_score, max_score, limit, offset, sort_by, sort_order) ==
    [active_only |-> active_only, min_score |-> min_score, max_score |-> max_score,
     limit |-> limit, offset |-> offset, sort_by |-> sort_by, sort_order |-> sort_order]

\* requests that bind (one of the score ranges is empty); and one with a score
\* bound above the range, one with limit 0, one with a direction that is
\* neither 1 nor -1
ListInputs ==
    { ListInput(active_only, scores[1], scores[2], page[1], page[2], sort[1], sort[2]) :
        active_only \in BOOLEAN,
        scores \in {<<0, 10>>, <<6, 10>>, <<6, 5>>},
        page \in {<<1, 0>>, <<2, 1>>},
        sort \in {<<"score", 1>>, <<"created_at", -1>>, <<"id; DROP TABLE wallets", -1>>} }
    \cup { ListInput(FALSE, 0, 11, 2, 0, "score", 1),
           ListInput(FALSE, 0, 10, 0, 0, "score", 1),
           ListInput(FALSE, 0, 10, 2, 0, "score", 0) }

\* the query parameters of the HTML list requests (no bound is declared)
HtmlListInputs ==
    { ListInput(active_only, min_score, 10, 2, 0, sort_by, -1) :
        active_only \in BOOLEAN, min_score \in {0, 6},
        sort_by \in {"score", "id; DROP TABLE wallets"} }
    \cup { ListInput(FALSE, 0, 10, 0, 0, "score", -1),
           ListInput(FALSE, 0, 10, 1, 1, "created_at", 0) }

InitList ==
    /\ args = NoArgs
    /\ result = NoResult
    /\ store \in SUBSET ListRecords
    /\ clock = MaxClock
    /\ nextId = Cardinality(ListRecords)
    /\ started = 0
    /\ pc = [p \in Procs |-> "idle"]
    /\ req = [p \in Procs |-> NoReq]
    /\ loc = [p \in Procs |-> NoLoc]
    /\ resp = [p \in Procs |-> NoResp]
    /\ calls = [p \in Procs |-> <<>>]

NextList ==
    \/ \E p \in Procs : \E q \in ListInputs : GetWallets(p, q)
    \/ \E p \in Procs : \E q \in HtmlListInputs : GetWalletsHtml(p, q)
    \/ \E p \in Procs : HtmlCount(p)

SpecList == InitList /\ [][NextList]_vars

(***************************************************************************)
(* build_sort_clause applied on its own.                                   *)
(***************************************************************************)
SortByTexts ==
    valid_sort_fields
    \cup {"id", "Score", "", "created_at DESC", "score; DROP TABLE wallets"}

SortOrders == -3..3

InitSort ==
    /\ NoRequests
    /\ args \in [fn : {"build_sort_clause"}, sort_by : SortByTexts, sort_order : SortOrders]
    /\ result = NoResult

\* helpers.py 50-58, called once
BuildSortClause ==
    /\ args.fn = "build_sort_clause"
    /\ result = NoResult
    /\ result' = Ok(build_sort_clause(args.sort_by, args.sort_order))
    /\ UNCHANGED <<args, handlers>>

NextSort == BuildSortClause

SpecSort == InitSort /\ [][NextSort]_vars

(***************************************************************************)
(* Storage calls that fail.  A call of the storage client may raise; the   *)
(* handlers of the JSON API run their calls inside try blocks.  A call     *)
(* that raised is followed, in the log of the request's calls, by the text *)
(* of its exception.                                                       *)
(***************************************************************************)
\* str(e) of the exceptions the storage client raises
Exceptions == {"Timeout", "Forbidden"}

\* an except clause that answers as if the call had succeeded
SwallowException(prefix, e) ==
    [status |-> 200, detail |-> prefix, message |-> e, wallet |-> <<>>, ids |-> <<>>]

\* except Exception as e: raise HTTPException(500, f"<prefix>: {str(e)}")
ExceptException(prefix, e) ==
    [status |-> 500, detail |-> prefix, message |-> e, wallet |-> <<>>, ids |-> <<>>]

\* the last of the calls in statements raises e inside the try block
Raises(p, statements, prefix, e) ==
    /\ Return(p, ExceptException(prefix, e))
    /\ Issued(p, Append(statements, e))
    /\ UNCHANGED <<store, clock, nextId, args, result>>

\* wallets.py 172-174, 212-213: the COUNT query of create_wallet raises
CreateCheckRaises(p, wallet_data, e) ==
    LET bound == WalletCreate(wallet_data) IN
    /\ Accept(p, [op |-> "create", wallet_data |-> wallet_data])
    /\ bound.ok
    /\ validate_ethereum_address(bound.value.address).ok
    /\ Raises(p, <<"SELECT">>, "Insert failed", e)

\* wallets.py 198, 212-213: the INSERT of create_wallet raises
CreateInsertRaises(p, e) ==
    /\ pc[p] = "create_insert"
    /\ Raises(p, Append(calls[p], "INSERT"), "Insert failed", e)
    /\ UNCHANGED <<started, req>>

\* wallets.py 106-108, 116-117: the SELECT of get_wallet raises
GetWalletRaises(p, wallet_id, e) ==
    /\ Accept(p, [op |-> "get", wallet_id |-> wallet_id])
    /\ validate_wallet_id(wallet_id).ok
    /\ Raises(p, <<"SELECT">>, "Query failed", e)

\* wallets.py 138-140, 148-149: the SELECT of search_wallet_by_address raises
SearchByAddressRaises(p, address, e) ==
    /\ Accept(p, [op |-> "search", address |-> address])
    /\ QueryAddress(address).ok
    /\ validate_ethereum_address(address).ok
    /\ Raises(p, <<"SELECT">>, "Query failed", e)

\* wallets.py 236-238, 286-287: the SELECT of update_wallet raises
UpdateCheckRaises(p, wallet_id, patch, e) ==
    /\ Accept(p, [op |-> "update", wallet_id |-> wallet_id, patch |-> patch])
    /\ WalletUpdate(patch).ok
    /\ validate_wallet_id(wallet_id).ok
    /\ Raises(p, <<"SELECT">>, "Update failed", e)

\* wallets.py 272, 286-287: the UPDATE of update_wallet raises
UpdateWriteRaises(p, e) ==
    /\ pc[p] = "update_write"
    /\ Raises(p, Append(calls[p], "UPDATE"), "Update failed", e)
    /\ UNCHANGED <<started, req>>

\* wallets.py 309-311, 333-334: the SELECT of delete_wallet raises
DeleteCheckRaises(p, wallet_id, e) ==
    /\ Accept(p, [op |-> "delete", wallet_id |-> wallet_id])
    /\ validate_wallet_id(wallet_id).ok
    /\ Raises(p, <<"SELECT">>, "Delete failed", e)

\* wallets.py 324, 333-334: the DELETE of delete_wallet raises
DeleteRemoveRaises(p, e) ==
    /\ pc[p] = "delete_remove"
    /\ Raises(p, Append(calls[p], "DELETE"), "Delete failed", e)
    /\ UNCHANGED <<started, req>>

\* wallets.py 367-369, 407-408: the SELECT of bulk_create_wallets raises
BulkCheckRaises(p, body, e) ==
    /\ Accept(p, [op |-> "bulk", body |-> body])
    /\ bound_wallets[body].ok
    /\ ~TooLarge(bound_wallets[body].value)
    /\ validated_addresses[body].ok
    /\ validated_addresses[body].value # <<>>
    /\ Raises(p, <<"SELECT">>, "Bulk insert failed", e)

\* wallets.py 394-395, 407-408: get_table raises, or insert_rows_json does
BulkInsertRaises(p, e) ==
    /\ pc[p] = "bulk_insert"
    /\ \E statements \in {<<"get_table">>, <<"get_table", "insert_rows_json">>} :
          Raises(p, calls[p] \o statements, "Bulk insert failed", e)
    /\ UNCHANGED <<started, req>>

\* wallets.py 395-398, 405-406: insert_rows_json returns errors; the
\* HTTPException raised for them passes the except clauses as it is
BulkInsertErrors(p, errors) ==
    /\ pc[p] = "bulk_insert"
    /\ Return(p, [status |-> 500, detail |-> "Insert errors", message |-> errors,
                  wallet |-> <<>>, ids |-> <<>>])
    /\ Issued(p, calls[p] \o <<"get_table", "insert_rows_json", errors>>)
    /\ UNCHANGED <<store, clock, nextId, started, req, args, result>>

\* wallets.py 62-67: the query of get_wallets raises
GetWalletsRaises(p, q, e) ==
    /\ Accept(p, [op |-> "list", q |-> q])
    /\ ListParameters(q).ok
    /\ Raises(p, <<"SELECT">>, "Query failed", e)

\* the requests of the runs with failing calls
FailureListInput == ListInput(FALSE, 0, 10, 2, 0, "score", 1)

\* every handler of the JSON API, its calls succeeding or raising
NextFailures ==
    \/ \E p \in Procs : CreateCheck(p, Entry(AddrA, 5, TRUE))
    \/ \E p \in Procs : CreateInsert(p)
    \/ \E p \in Procs : GetWallet(p, str_uuid4(1))
    \/ \E p \in Procs : SearchByAddress(p, AddrAMixed)
    \/ \E p \in Procs : UpdateCheck(p, str_uuid4(1), [score |-> 9])
    \/ \E p \in Procs : UpdateWrite(p)
    \/ \E p \in Procs : DeleteCheck(p, str_uuid4(1))
    \/ \E p \in Procs : DeleteRemove(p)
    \/ \E p \in Procs : BulkCheck(p, 3)
    \/ \E p \in Procs : BulkInsert(p)
    \/ \E p \in Procs : \E e \in Exceptions : CreateCheckRaises(p, Entry(AddrA, 5, TRUE), e)
    \/ \E p \in Procs : \E e \in Exceptions : CreateInsertRaises(p, e)
    \/ \E p \in Procs : \E e \in Exceptions : GetWalletRaises(p, str_uuid4(1), e)
    \/ \E p \in Procs : \E e \in Exceptions : SearchByAddressRaises(p, AddrAMixed, e)
    \/ \E p \in Procs : \E e \in Exceptions : UpdateCheckRaises(p, str_uuid4(1), [score |-> 9], e)
    \/ \E p \in Procs : \E e \in Exceptions : UpdateWriteRaises(p, e)
    \/ \E p \in Procs : \E e \in Exceptions : DeleteCheckRaises(p, str_uuid4(1), e)
    \/ \E p \in Procs : \E e \in Exceptions : DeleteRemoveRaises(p, e)
    \/ \E p \in Procs : \E e \in Exceptions : BulkCheckRaises(p, 3, e)
    \/ \E p \in Procs : \E e \in Exceptions : BulkInsertRaises(p, e)
    \/ \E p \in Procs : \E e \in Exceptions : BulkInsertErrors(p, e)
    \/ \E p \in Procs : \E e \in Exceptions : GetWalletsRaises(p, FailureListInput, e)

SpecFailures == Init /\ [][NextFailures]_vars

(***************************************************************************)
(* The HTML read paths over a storage client whose calls may raise.        *)
(* GET /wallets/search/by-address (HTML)  frontend.py search_wallet_html;  *)
(* the except clauses of it and of get_wallets_html.                       *)
(***************************************************************************)
\* frontend.py 104-113: the query and its parameter, address.lower()
HtmlSearchQuery(address) ==
    [statement |-> "SELECT",
     text |-> <<"SELECT id, address, score, is_active, created_at, last_updated FROM wallets WHERE",
                "address = @address", "LIMIT 1">>,
     params |-> <<[name |-> "address", type |-> "STRING", value |-> Lower(address)]>>]

\* the log entry that follows a call that raised e
RaisedEntry(e) == [statement |-> "raise", text |-> <<e>>, params |-> <<>>]

\* frontend.py 119-122, 140-143: the partial for an address without record
WalletNotFoundPartial(address) ==
    [status |-> 200, detail |-> "partials/wallet_not_found.html", wallet |-> <<>>,
     ids |-> <<>>, address |-> address]

\* frontend.py 124-137: the partial showing the row
WalletCardPartial(row) ==
    [status |-> 200, detail |-> "partials/wallet_card.html",
     wallet |-> <<Row(row.id, row.address, row.score, row.is_active, row.created_at,
                      row.last_updated)>>,
     ids |-> <<>>]

\* frontend.py 103-137: one SELECT with LIMIT 1, then one of the two partials
SearchWalletHtml(p, address) ==
    LET search_query == HtmlSearchQuery(address)
        rows == SelectByAddress(search_query.params[1].value)
    IN
    /\ Accept(p, [op |-> "search_html", address |-> address])
    /\ Issued(p, <<search_query>>)
    /\ IF rows = {}
       THEN Return(p, WalletNotFoundPartial(address))
       ELSE \E row \in rows : Return(p, WalletCardPartial(row))
    /\ UNCHANGED <<store, clock, nextId, args, result>>

\* frontend.py 115-116, 139-143: the SELECT raises
SearchWalletHtmlRaises(p, address, e) ==
    /\ Accept(p, [op |-> "search_html", address |-> address])
    /\ Issued(p, <<HtmlSearchQuery(address), RaisedEntry(e)>>)
    /\ Return(p, WalletNotFoundPartial(address))
    /\ UNCHANGED <<store, clock, nextId, args, result>>

\* frontend.py 58, 80-93: the first query of get_wallets_html raises
GetWalletsHtmlRaises(p, q, e) ==
    /\ Accept(p, [op |-> "list_html", q |-> q])
    /\ Issued(p, <<HtmlWalletsQuery(q), RaisedEntry(e)>>)
    /\ Return(p, TemplateResponse(q, <<>>, 0))
    /\ UNCHANGED <<store, clock, nextId, args, result>>

\* frontend.py 77-93: the count query raises; the rows read are dropped
HtmlCountRaises(p, e) ==
    /\ pc[p] = "html_count"
    /\ Issued(p, calls[p] \o <<HtmlCountQuery(req[p].q), RaisedEntry(e)>>)
    /\ Return(p, TemplateResponse(req[p].q, <<>>, 0))
    /\ UNCHANGED <<store, clock, nextId, started, req, args, result>>

\* list pages with limit 2 and with limit 0; a stored and an absent address
HtmlFailureListInputs ==
    { ListInput(FALSE, 0, 10, 2, 0, "score", -1),
      ListInput(FALSE, 0, 10, 0, 0, "score", -1) }

HtmlSearchInputs == {AddrAMixed, AddrBad}

NextHtmlFailures ==
    \/ \E p \in Procs : \E q \in HtmlFailureListInputs : GetWalletsHtml(p, q)
    \/ \E p \in Procs : HtmlCount(p)
    \/ \E p \in Procs : \E a \in HtmlSearchInputs : SearchWalletHtml(p, a)
    \/ \E p \in Procs : \E q \in HtmlFailureListInputs : \E e \in Exceptions :
          GetWalletsHtmlRaises(p, q, e)
    \/ \E p \in Procs : \E e \in Exceptions : HtmlCountRaises(p, e)
    \/ \E p \in Procs : \E a \in HtmlSearchInputs : \E e \in Exceptions :
          SearchWalletHtmlRaises(p, a, e)

SpecHtmlFailures == InitList /\ [][NextHtmlFailures]_vars

(***************************************************************************)
(* Vocabulary of the properties.                                           *)
(***************************************************************************)
\* this step hands a new request to worker p
AcceptedBy(p) ==
    /\ started' = started + 1
    /\ pc[p] = "idle"
    /\ \A q \in Procs : q < p => pc[q] # "idle"

CasePairs ==
    { <<"a", "A">>, <<"b", "B">>, <<"c", "C">>, <<"d", "D">>, <<"e", "E">>,
      <<"f", "F">>, <<"g", "G">>, <<"x", "X">> }

SameLetter(c, d) == c = d \/ <<c, d>> \in CasePairs \/ <<d, c>> \in CasePairs

EqualUpToCase(s, t) ==
    Len(s) = Len(t) /\ \A i \in 1..Len(s) : SameLetter(s[i], t[i])

\* the address written as the specification's regex 0x[0-9a-fA-F]{40} demands
WellFormedAddress(s) ==
    /\ Len(s) = 42
    /\ s[1] = "0" /\ s[2] = "x"
    /\ \A i \in 3..42 : s[i] \in Digits \cup LowerHex \cup UpperHex

Conflict == HTTPException(400, "Wallet address already exists")
InvalidFormat == HTTPException(400, "Invalid Ethereum address format")
BatchTooLarge == HTTPException(400, "Maximum 100 wallets per bulk operation")
NotFound == HTTPException(404, "Wallet not found")

(***************************************************************************)
(* C1.  In every reachable state no two stored records have the same       *)
(* (lowercase-normalized) address.  Stated as claimed; the table has no    *)
(* unique constraint and bulk-create does not compare the entries of a     *)
(* batch with each other, so TLC finds it violated.                        *)
(***************************************************************************)
C1_UniqueAddress ==
    \A r1, r2 \in store : EqualUpToCase(r1.address, r2.address) => r1.id = r2.id

(***************************************************************************)
(* C2.  As claimed: a create whose address equals a stored address up to   *)
(* letter case is answered Conflict and leaves the store unchanged.  The   *)
(* upper-cased prefix 0X is equal to 0x up to letter case, and is answered *)
(* InvalidFormat.                                                          *)
(***************************************************************************)
C2_AsClaimed ==
    [][\A p \in Procs : \A d \in CreateInputs :
          ( /\ AcceptedBy(p)
            /\ req'[p] = [op |-> "create", wallet_data |-> d]
            /\ \E r \in store : EqualUpToCase(r.address, d.address) )
          => (resp'[p] = Conflict /\ store' = store)]_vars

(***************************************************************************)
(* C2, amended.  A create whose address is well formed (prefix 0x in lower *)
(* case) and equals a stored address up to the case of its hex digits is   *)
(* answered Conflict (400) after the existence check alone: no INSERT is   *)
(* issued and the store is unchanged.                                      *)
(***************************************************************************)
C2_DuplicateCreateConflicts ==
    [][\A p \in Procs : \A d \in CreateInputs :
          ( /\ AcceptedBy(p)
            /\ req'[p] = [op |-> "create", wallet_data |-> d]
            /\ WellFormedAddress(d.address)
            /\ \E r \in store : EqualUpToCase(r.address, d.address) )
          => ( /\ resp'[p] = Conflict
               /\ store' = store
               /\ pc'[p] = "idle"
               /\ calls'[p] = <<"SELECT">> )]_vars

\* a create in mixed case was refused because the lower-case address is stored
C2_Witness ==
    \E p \in Procs :
        /\ req[p] = [op |-> "create", wallet_data |-> Entry(AddrAMixed, 5, TRUE)]
        /\ pc[p] = "idle"
        /\ resp[p] = Conflict
        /\ \E r \in store : r.address = AddrA

(***************************************************************************)
(* C3.  Bulk-create is all-or-nothing.  A request with an invalid entry    *)
(* or with an address that the existence check finds stored is answered    *)
(* 400 in the step that accepts it, with the store unchanged and no insert *)
(* pending; every other request of at most 100 entries goes on to the      *)
(* insert, and the insert adds one row per entry, each with its entry's    *)
(* normalized address, score and is_active, and changes no other row.      *)
(***************************************************************************)
\* the addresses of each request body, and whether all of them are well formed
BulkAddresses ==
    [b \in DOMAIN BulkInputs |-> {BulkInputs[b][i].address : i \in 1..Len(BulkInputs[b])}]

BatchValid ==
    [b \in DOMAIN BulkInputs |->
        /\ \A a \in BulkAddresses[b] : WellFormedAddress(a)
        /\ \A i \in 1..Len(BulkInputs[b]) : BulkInputs[b][i].score \in 0..10]

BatchDuplicatesStored(b) ==
    \E a \in BulkAddresses[b] : \E r \in store : EqualUpToCase(r.address, a)

C3_BulkAllOrNothing ==
    [][\A p \in Procs :
          /\ \A b \in DOMAIN BulkInputs :
                (AcceptedBy(p) /\ req'[p] = [op |-> "bulk", body |-> b])
                => /\ store' = store
                   /\ (~BatchValid[b] \/ BatchDuplicatesStored(b))
                       => (resp'[p].status = 400 /\ pc'[p] = "idle")
                   /\ ( /\ BatchValid[b]
                        /\ ~BatchDuplicatesStored(b)
                        /\ Len(BulkInputs[b]) \in 1..MAX_BULK )
                       => pc'[p] = "bulk_insert"
          /\ (pc[p] = "bulk_insert" /\ pc'[p] = "idle")
                => LET wallets == BulkInputs[req[p].body]
                       rows == loc[p].rows_to_insert
                   IN /\ Len(rows) = Len(wallets)
                      /\ store \subseteq store'
                      /\ store' \ store = {rows[i] : i \in 1..Len(rows)}
                      /\ Cardinality(store' \ store) = Len(wallets)
                      /\ \A i \in 1..Len(wallets) :
                            /\ EqualUpToCase(rows[i].address, wallets[i].address)
                            /\ rows[i].address = Lower(rows[i].address)
                            /\ rows[i].score = wallets[i].score
                            /\ rows[i].is_active = wallets[i].is_active
                      /\ resp'[p].status = 201]_vars

\* a batch was persisted whole (two rows stamped alike, with the scores of its
\* entries), and then a batch whose second entry is stored was refused and
\* nothing of it persisted
C3_Witness ==
    \E p \in Procs :
        /\ req[p] = [op |-> "bulk", body |-> 3]
        /\ pc[p] = "idle"
        /\ resp[p] = Conflict
        /\ ~\E r \in store : r.address = AddrB
        /\ \E r1, r2 \in store :
              /\ r1.address = AddrA /\ r2.address = AddrA
              /\ r1.score = 5 /\ r2.score = 9
              /\ \E n \in 1..nextId : r1.id = str_uuid4(n) /\ r2.id = str_uuid4(n + 1)
              /\ r1.created_at = r2.created_at
        /\ started = 2

(***************************************************************************)
(* C4.  A bulk-create of more than 100 entries is answered 400 for its     *)
(* size before any address is validated (the 101-entry body starts with an *)
(* invalid address) and before any storage call; a body of exactly 100     *)
(* entries is not refused for its size.                                    *)
(***************************************************************************)
C4_BatchSizeLimit ==
    [][\A p \in Procs : \A b \in DOMAIN BulkInputs :
          (AcceptedBy(p) /\ req'[p] = [op |-> "bulk", body |-> b])
          => IF Len(BulkInputs[b]) > 100
             THEN /\ resp'[p] = BatchTooLarge
                  /\ calls'[p] = <<>>
                  /\ pc'[p] = "idle"
                  /\ store' = store
             ELSE resp'[p] # BatchTooLarge]_vars

\* 101 entries were refused for their number, and 100 entries for the invalid
\* address among them
C4_Witness ==
    \E p, q \in Procs :
        /\ req[p] = [op |-> "bulk", body |-> 6]
        /\ Len(BulkInputs[6]) = 101
        /\ resp[p] = BatchTooLarge
        /\ req[q] = [op |-> "bulk", body |-> 5]
        /\ Len(BulkInputs[5]) = 100
        /\ pc[q] = "idle"
        /\ resp[q] = InvalidFormat

(***************************************************************************)
(* C5.  The existence check and the INSERT of create are two steps: the    *)
(* INSERT of a request that passed the check always adds its row, also     *)
(* when a row with the same address has been stored since the check.  Two  *)
(* concurrent creates of one address thus leave two rows with it.          *)
(***************************************************************************)
C5_InsertDoesNotRecheck ==
    [][\A p \in Procs :
          (pc[p] = "create_insert" /\ pc'[p] = "idle")
          => /\ store \subseteq store'
             /\ \E r \in store' \ store :
                   r.address = loc[p].address /\ r.id = loc[p].wallet_id
             /\ resp'[p].status = 201]_vars

\* both creates were answered 201 and both rows are stored
C5_Witness ==
    \E p, q \in Procs :
        /\ p # q
        /\ req[p].op = "create" /\ req[q].op = "create"
        /\ pc[p] = "idle" /\ pc[q] = "idle"
        /\ resp[p].status = 201 /\ resp[q].status = 201
        /\ resp[p].wallet[1].address = resp[q].wallet[1].address
        /\ resp[p].wallet[1].id # resp[q].wallet[1].id
        /\ \E r1, r2 \in store :
              /\ r1.id = resp[p].wallet[1].id
              /\ r2.id = resp[q].wallet[1].id
              /\ r1.address = r2.address
(***************************************************************************)
(* C6.  As claimed: every update answered 200 for a stored record leaves   *)
(* that record's last_updated at the time of the update (the handler's now *)
(* when it issues an UPDATE, the instant of its single step otherwise),    *)
(* also when the patch carries neither score nor is_active.                *)
(***************************************************************************)
Stored(id) == \E r \in store : r.id = id

UpdateWritten(p) == pc[p] = "update_write" /\ pc'[p] = "idle"

C6_AsClaimed ==
    [][\A p \in Procs :
          /\ (UpdateWritten(p) /\ Stored(req[p].wallet_id))
                => \A r \in store' :
                      r.id = req[p].wallet_id => r.last_updated = loc[p].now
          /\ ( /\ AcceptedBy(p)
               /\ req'[p].op = "update"
               /\ pc'[p] = "idle"
               /\ resp'[p].status = 200 )
                => \A r \in store' :
                      r.id = req'[p].wallet_id => r.last_updated = clock]_vars

(***************************************************************************)
(* C6, amended.  Every update whose patch carries score or is_active sets  *)
(* the stored last_updated of its record to the handler's now, also when   *)
(* the patch changes no value; an update whose patch carries neither is    *)
(* answered 200 with the record as read and issues no UPDATE: the record,  *)
(* last_updated included, stays as it was.                                 *)
(***************************************************************************)
C6_UpdateRefreshesLastUpdated ==
    [][\A p \in Procs :
          /\ (UpdateWritten(p) /\ Stored(req[p].wallet_id))
                => /\ ~NoFieldsToUpdate(req[p].patch)
                   /\ resp'[p].status = 200
                   /\ \A r \in store' :
                         r.id = req[p].wallet_id => r.last_updated = loc[p].now
          /\ \A i \in IdInputs :
                ( /\ AcceptedBy(p)
                  /\ req'[p] = [op |-> "update", wallet_id |-> i, patch |-> <<>>]
                  /\ Stored(i) )
                => /\ store' = store
                   /\ pc'[p] = "idle"
                   /\ calls'[p] = <<"SELECT">>
                   /\ resp'[p].status = 200
                   /\ resp'[p].wallet = <<CHOOSE r \in store : r.id = i>>]_vars

\* the record created with score 9 was updated with {score: 9}, the second
\* request of the run: no value changed and last_updated moved
C6_Witness ==
    \E p \in Procs : \E r \in store :
        /\ req[p] = [op |-> "update", wallet_id |-> r.id, patch |-> [score |-> 9]]
        /\ pc[p] = "idle"
        /\ resp[p].status = 200
        /\ started = 2
        /\ r.address = AddrB /\ r.score = 9 /\ r.is_active = FALSE
        /\ r.last_updated > r.created_at
        /\ resp[p].wallet[1].last_updated = r.last_updated

(***************************************************************************)
(* C7.  As claimed: the UPDATE of update(id, patch) changes, of the record *)
(* with that id, only the fields named in the patch and last_updated;      *)
(* id, address, created_at and the absent fields keep their value, every   *)
(* other record is unchanged, and last_updated does not decrease.  The     *)
(* handler reads now before its UPDATE runs, so of two interleaved updates *)
(* of one record the one that read the earlier now may write last.         *)
(***************************************************************************)
C7_Frame(p) ==
    LET id == req[p].wallet_id
        patch == req[p].patch
    IN /\ {r.id : r \in store'} = {r.id : r \in store}
       /\ Cardinality(store') = Cardinality(store)
       /\ \A r \in store :
             IF r.id # id
             THEN r \in store'
             ELSE \E u \in store' :
                     /\ u.id = r.id
                     /\ u.address = r.address
                     /\ u.created_at = r.created_at
                     /\ u.score = (IF HasScore(patch) THEN patch.score ELSE r.score)
                     /\ u.is_active =
                           (IF HasActive(patch) THEN patch.is_active ELSE r.is_active)

C7_LastUpdatedMonotone(p) ==
    \A r \in store : \A u \in store' :
        (r.id = req[p].wallet_id /\ u.id = r.id) => u.last_updated >= r.last_updated

C7_AsClaimed ==
    [][\A p \in Procs :
          /\ UpdateWritten(p) => (C7_Frame(p) /\ C7_LastUpdatedMonotone(p))
          /\ (AcceptedBy(p) /\ req'[p].op = "update") => store' = store]_vars

PendingIds ==
    {loc[p].wallet_id : p \in {q \in Procs : pc[q] = "create_insert"}}
    \cup UNION { {loc[p].rows_to_insert[i].id : i \in 1..Len(loc[p].rows_to_insert)} :
                 p \in {q \in Procs : pc[q] = "bulk_insert"} }

IssuedIds == {str_uuid4(n) : n \in 1..nextId}

Gone(id) == id \in IssuedIds /\ ~Stored(id) /\ id \notin PendingIds

DeleteRemoved(p) == pc[p] = "delete_remove" /\ pc'[p] = "idle"

C9_DeletedStaysDeleted ==
    [][/\ \A p \in Procs :
             /\ DeleteRemoved(p)
                   => /\ store' = {r \in store : r.id # req[p].wallet_id}
                      /\ resp'[p].status = 200
                      /\ Gone(req[p].wallet_id)'
             /\ \A i \in IdInputs :
                   ( /\ AcceptedBy(p)
                     /\ req'[p] = [op |-> "get", wallet_id |-> i]
                     /\ ~Stored(i) )
                   => (resp'[p] = NotFound /\ store' = store)
       /\ \A i \in IssuedIds : Gone(i) => Gone(i)']_vars

\* a get of an id that was stored and has been deleted was answered NotFound
C9_Witness ==
    \E p \in Procs : \E i \in IdInputs :
        /\ req[p] = [op |-> "get", wallet_id |-> i]
        /\ pc[p] = "idle"
        /\ resp[p] = NotFound
        /\ Gone(i)

(***************************************************************************)
(* C10.  As claimed: a delete answered 200 returns the record with the     *)
(* values stored at the moment its DELETE removes the row, also when an    *)
(* update of that id ran between the delete's SELECT and its DELETE.  The  *)
(* handler returns the row its SELECT read.                                *)
(***************************************************************************)
C10_AsClaimed ==
    [][\A p \in Procs :
          (DeleteRemoved(p) /\ Stored(req[p].wallet_id))
          => /\ resp'[p].status = 200
             /\ resp'[p].wallet = <<CHOOSE r \in store : r.id = req[p].wallet_id>>]_vars

(***************************************************************************)
(* Vocabulary of the request-boundary properties.                          *)
(***************************************************************************)
InvalidIdFormat == HTTPException(400, "Invalid wallet ID format")
Unprocessable == HTTPException(422, "Unprocessable Entity")

\* an identifier as UUID text: hexadecimal digits and hyphens, 32 digits in all
WellFormedIdentifier(s) ==
    /\ \A i \in DOMAIN s : s[i] = "-" \/ s[i] \in Digits \cup LowerHex \cup UpperHex
    /\ Cardinality({i \in DOMAIN s : s[i] # "-"}) = 32

\* the request carries an identifier or an address that validation refuses
FailsValidation(request) ==
    CASE request.op \in {"get", "update", "delete"} ->
            ~WellFormedIdentifier(request.wallet_id)
      [] request.op = "create" -> ~WellFormedAddress(request.wallet_data.address)
      [] request.op = "search" -> ~WellFormedAddress(request.address)
      [] request.op = "bulk" -> \E a \in BulkAddresses[request.body] : ~WellFormedAddress(a)
      [] OTHER -> FALSE

\* the request does not bind: a score outside 0..10, or an address that is
\* not 42 characters long
FailsBinding(request) ==
    CASE request.op = "update" ->
            "score" \in DOMAIN request.patch /\ request.patch.score \notin 0..10
      [] request.op = "create" ->
            \/ Len(request.wallet_data.address) # 42
            \/ request.wallet_data.score \notin 0..10
      [] request.op = "search" -> Len(request.address) # 42
      [] request.op = "bulk" ->
            \E i \in 1..Len(BulkInputs[request.body]) :
                \/ Len(BulkInputs[request.body][i].address) # 42
                \/ BulkInputs[request.body][i].score \notin 0..10
      [] OTHER -> FALSE

(***************************************************************************)
(* C11.  As claimed: get/update/delete with a malformed identifier, and    *)
(* create/search/bulk-create with an address that fails validation, are    *)
(* answered InvalidFormat (400) with no storage call issued.  An address   *)
(* of 41 characters is refused by input binding (422), and a batch of 101  *)
(* entries for its size, before the handler validates any address.         *)
(***************************************************************************)
C11_AsClaimed ==
    [][\A p \in Procs :
          (AcceptedBy(p) /\ FailsValidation(req'[p]))
          => /\ resp'[p] \in {InvalidFormat, InvalidIdFormat}
             /\ calls'[p] = <<>>]_vars

(***************************************************************************)
(* C11, amended.  A request whose identifier is malformed (get, update,    *)
(* delete) or one of whose addresses fails validation (create, search,     *)
(* bulk-create) is refused in the step that accepts it, with no storage    *)
(* call issued and the store unchanged.  The answer is 422 when the        *)
(* request does not bind (an address not 42 characters long, a score       *)
(* outside 0..10), the batch-size error (400) for a batch of more than 100 *)
(* entries, and InvalidFormat (400) in every other case.                   *)
(***************************************************************************)
C11_ValidationPrecedesStorage ==
    [][\A p \in Procs :
          (AcceptedBy(p) /\ FailsValidation(req'[p]))
          => /\ calls'[p] = <<>>
             /\ store' = store
             /\ pc'[p] = "idle"
             /\ resp'[p] =
                   (IF FailsBinding(req'[p]) THEN Unprocessable
                    ELSE IF req'[p].op \in {"get", "update", "delete"} THEN InvalidIdFormat
                    ELSE IF req'[p].op = "bulk" /\ Len(BulkInputs[req'[p].body]) > 100
                    THEN BatchTooLarge
                    ELSE InvalidFormat)]_vars

\* with a record stored, a delete of an identifier that is no UUID was refused
\* without a storage call, and the record is still stored
C11_Witness ==
    \E p \in Procs :
        /\ req[p] = [op |-> "delete", wallet_id |-> IdNotHex]
        /\ pc[p] = "idle"
        /\ resp[p] = InvalidIdFormat
        /\ calls[p] = <<>>
        /\ store # {}

(***************************************************************************)
(* Vocabulary of the properties of validate_ethereum_address.              *)
(***************************************************************************)
\* str.upper() and str.lower() of the claims, by the pairs of letters
Upper(s) ==
    [i \in 1..Len(s) |->
        IF \E pr \in CasePairs : pr[1] = s[i]
        THEN (CHOOSE pr \in CasePairs : pr[1] = s[i])[2]
        ELSE s[i]]

\* the text with the 40 characters after its prefix in upper case
UpperDigits(s) == SubSeq(s, 1, 2) \o Upper(SubSeq(s, 3, Len(s)))

HasNoUpperCase(s) == \A i \in 1..Len(s) : ~\E pr \in CasePairs : pr[2] = s[i]

Validated == args.fn = "validate_ethereum_address" /\ result # NoResult

(***************************************************************************)
(* C12.  As claimed: for every address a that validate_ethereum_address    *)
(* accepts, a.upper() is accepted too, with the same result.  a.upper()    *)
(* starts with 0X, which the prefix test refuses.                          *)
(***************************************************************************)
C12_AsClaimed ==
    (Validated /\ result.ok) => validate_ethereum_address(Upper(args.address)) = result

(***************************************************************************)
(* C12, amended.  For every address a that validate_ethereum_address       *)
(* accepts, a with its 40 hexadecimal digits in upper case (the prefix 0x  *)
(* kept) is accepted with the same normalized result, and the fully        *)
(* upper-cased a.upper(), whose prefix is 0X, is refused with 400.         *)
(***************************************************************************)
C12_DigitCaseInsensitive ==
    (Validated /\ result.ok)
    => /\ validate_ethereum_address(UpperDigits(args.address)) = result
       /\ ~validate_ethereum_address(Upper(args.address)).ok
       /\ validate_ethereum_address(Upper(args.address)).status = 400

\* an address in mixed case was accepted: upper-casing its digits changes it
C12_Witness ==
    /\ Validated
    /\ result.ok
    /\ UpperDigits(args.address) # args.address
    /\ \E i \in 3..Len(args.address) : args.address[i] = "F"

(***************************************************************************)
(* C13.  validate_ethereum_address accepts a text exactly when it is 42    *)
(* characters long and is 0x followed by 40 characters of 0-9, a-f, A-F;   *)
(* it then returns the text in lower case (equal to the input up to letter *)
(* case, with no upper-case letter); every other text is refused with 400  *)
(* 'Invalid Ethereum address format'.                                      *)
(***************************************************************************)
C13_AcceptsExactlyRegex ==
    Validated
    => IF WellFormedAddress(args.address)
       THEN /\ result.ok
            /\ EqualUpToCase(result.value, args.address)
            /\ HasNoUpperCase(result.value)
       ELSE /\ ~result.ok
            /\ result.status = 400
            /\ result.detail = "Invalid Ethereum address format"

\* a 42-character text with one character outside the class was refused
C13_Witness ==
    /\ Validated
    /\ ~result.ok
    /\ Len(args.address) = 42
    /\ args.address[1] = "0" /\ args.address[2] = "x"
    /\ args.address[42] = "g"

(***************************************************************************)
(* C15.  build_sort_clause returns, for every sort_by and every integer    *)
(* sort_order, ORDER BY <field> <dir> without raising: field is sort_by    *)
(* when sort_by is one of created_at, score, address, last_updated,        *)
(* is_active, and created_at for every other text; dir is ASC exactly when *)
(* sort_order is 1, DESC otherwise.                                        *)
(***************************************************************************)
C15_SortClause ==
    (args.fn = "build_sort_clause" /\ result # NoResult)
    => /\ result.ok
       /\ Len(result.value) = 3
       /\ result.value[1] = "ORDER BY"
       /\ result.value[2] \in {"created_at", "score", "address", "last_updated", "is_active"}
       /\ result.value[2] =
             (IF args.sort_by \in {"created_at", "score", "address", "last_updated",
                                   "is_active"}
              THEN args.sort_by ELSE "created_at")
       /\ (result.value[3] = "ASC") <=> (args.sort_order = 1)
       /\ (result.value[3] = "DESC") <=> (args.sort_order # 1)

\* a sort_by carrying a second statement was replaced by created_at
C15_Witness ==
    /\ args.fn = "build_sort_clause"
    /\ args.sort_by = "score; DROP TABLE wallets"
    /\ args.sort_order = 0
    /\ result = Ok(<<"ORDER BY", "created_at", "DESC">>)

(***************************************************************************)
(* Vocabulary of the list properties.                                      *)
(***************************************************************************)
\* the sort field and direction a list request is left with after validation
ValidatedSort(q) ==
    << IF q.sort_by \in {"created_at", "score", "address", "last_updated", "is_active"}
       THEN q.sort_by ELSE "created_at",
       IF q.sort_order = 1 THEN "ASC" ELSE "DESC" >>

\* this step hands worker p a list request of the kind of its previous one,
\* and both reached the backend
ListAfterList(p) ==
    /\ AcceptedBy(p)
    /\ req[p].op \in {"list", "list_html"}
    /\ req'[p].op = req[p].op
    /\ calls[p] # <<>> /\ calls'[p] # <<>>

BoundAs(query, name, value) ==
    \E i \in 1..Len(query.params) :
        query.params[i].name = name /\ query.params[i].value = value

(***************************************************************************)
(* C14.  As claimed, for both handlers that build a list query (get_wallets *)
(* and get_wallets_html): two list requests that agree on active_only and  *)
(* on the validated sort field and direction send the same query text, and *)
(* min_score, max_score, limit and offset travel as bound parameters.      *)
(* get_wallets_html formats all of them, and sort_by as given, into the    *)
(* text.                                                                   *)
(***************************************************************************)
C14_AsClaimed ==
    [][\A p \in Procs :
          /\ ( /\ ListAfterList(p)
               /\ req'[p].q.active_only = req[p].q.active_only
               /\ ValidatedSort(req'[p].q) = ValidatedSort(req[p].q) )
             => calls'[p][1].text = calls[p][1].text
          /\ ( /\ AcceptedBy(p)
               /\ req'[p].op \in {"list", "list_html"}
               /\ calls'[p] # <<>> )
             => /\ BoundAs(calls'[p][1], "min_score", req'[p].q.min_score)
                /\ BoundAs(calls'[p][1], "max_score", req'[p].q.max_score)
                /\ BoundAs(calls'[p][1], "limit", req'[p].q.limit)
                /\ BoundAs(calls'[p][1], "offset", req'[p].q.offset)]_vars

(***************************************************************************)
(* C16.  As claimed: a list request that binds is answered 200 with the    *)
(* stored records whose score lies in [min_score, max_score] (the active   *)
(* ones only when active_only is set), each at most once, ordered by the   *)
(* validated sort field in the requested direction, without the first      *)
(* offset of them and at most limit of them; none when min_score exceeds   *)
(* max_score.  With active_only set the is_active parameter is typed INT64 *)
(* and the query fails.                                                    *)
(***************************************************************************)
Matching(q) ==
    { r \in store :
        /\ q.min_score <= r.score /\ r.score <= q.max_score
        /\ q.active_only => r.is_active }

\* a sorts strictly before b in the order the request asks for
SortsBefore(a, b, q) ==
    LET field == ValidatedSort(q)[1]
        key(r) == IF field = "score" THEN r.score ELSE r.created_at
    IN IF ValidatedSort(q)[2] = "ASC" THEN key(a) < key(b) ELSE key(b) < key(a)

IsPageOf(ws, q) ==
    LET returned == {ws[i] : i \in 1..Len(ws)}
        left == Matching(q) \ returned
    IN /\ returned \subseteq Matching(q)
       /\ Cardinality(returned) = Len(ws)
       /\ \A i, j \in 1..Len(ws) : i < j => ~SortsBefore(ws[j], ws[i], q)
       /\ Len(ws) <= q.limit
       /\ \E skipped \in SUBSET left :
             /\ Cardinality(skipped) = Min(q.offset, Cardinality(Matching(q)))
             /\ \A r \in skipped : \A w \in returned : ~SortsBefore(w, r, q)
             /\ \A r \in left \ skipped : \A w \in returned \cup skipped : ~SortsBefore(r, w, q)
             /\ (left \ skipped # {}) => Len(ws) = q.limit

BindsAsList(q) ==
    /\ q.min_score \in 0..10 /\ q.max_score \in 0..10
    /\ q.limit \in 1..1000 /\ q.offset >= 0

C16_AsClaimed ==
    [][\A p \in Procs :
          (AcceptedBy(p) /\ req'[p].op = "list" /\ BindsAsList(req'[p].q))
          => /\ resp'[p].status = 200
             /\ IsPageOf(resp'[p].wallet, req'[p].q)
             /\ (req'[p].q.min_score > req'[p].q.max_score) => resp'[p].wallet = <<>>
             /\ store' = store]_vars

(***************************************************************************)
(* C17.  A create request whose address is valid and not stored and whose  *)
(* score is in 0..10 goes on to its INSERT; the INSERT adds exactly one    *)
(* record: its id differs from every stored id, its address is the        *)
(* lowercase form of the address sent, its score is the score sent,        *)
(* created_at = last_updated, is_active is the value sent and true when    *)
(* the body leaves it out; the answer is 201 with that record.             *)
(***************************************************************************)
CreateInserted(p) == pc[p] = "create_insert" /\ pc'[p] = "idle"

IsActiveSent(body) == IF "is_active" \in DOMAIN body THEN body.is_active ELSE TRUE

BatchRepeats ==
    [b \in DOMAIN BulkInputs |->
        \E i, j \in 1..Len(BulkInputs[b]) :
            i # j /\ EqualUpToCase(BulkInputs[b][i].address, BulkInputs[b][j].address)]

C18_BatchNotComparedWithItself ==
    [][\A p \in Procs :
          /\ ( /\ AcceptedBy(p)
               /\ req'[p].op = "bulk"
               /\ BatchRepeats[req'[p].body]
               /\ BatchValid[req'[p].body]
               /\ Len(BulkInputs[req'[p].body]) <= MAX_BULK
               /\ ~BatchDuplicatesStored(req'[p].body) )
             => /\ pc'[p] = "bulk_insert"
                /\ resp'[p] # Conflict
          /\ ( /\ pc[p] = "bulk_insert" /\ pc'[p] = "idle"
               /\ BatchRepeats[req[p].body] )
             => /\ Cardinality(store') = Cardinality(store) + Len(BulkInputs[req[p].body])
                /\ \E r1, r2 \in store' \ store :
                      r1.id # r2.id /\ r1.address = r2.address
                /\ resp'[p].status = 201
                /\ Len(resp'[p].ids) = Len(BulkInputs[req[p].body])]_vars

\* the batch with one address twice has been answered 201 on a table that
\* held another record, and both of its entries are stored
C18_Witness ==
    \E p \in Procs :
        /\ req[p].op = "bulk" /\ BatchRepeats[req[p].body]
        /\ pc[p] = "idle" /\ resp[p].status = 201
        /\ Len(resp[p].ids) = 2
        /\ \A i \in 1..2 : \E r \in store : r.id = resp[p].ids[i] /\ r.address = AddrA
        /\ \E r \in store : r.address = AddrB

(***************************************************************************)
(* C19.  Every stored record has a score in 0..10 in every reachable       *)
(* state, and a create, bulk-create or update request carrying a score     *)
(* outside 0..10 is refused by input binding (422): it issues no storage   *)
(* call and the store stays as it was.                                     *)
(***************************************************************************)
ScoreOutOfRange(request) ==
    CASE request.op = "create" -> request.wallet_data.score \notin 0..10
      [] request.op = "update" ->
            "score" \in DOMAIN request.patch /\ request.patch.score \notin 0..10
      [] request.op = "bulk" ->
            \E i \in 1..Len(BulkInputs[request.body]) :
                BulkInputs[request.body][i].score \notin 0..10
      [] OTHER -> FALSE

C19_ScoreAlwaysInRange ==
    /\ [](\A r \in store : r.score \in 0..10)
    /\ [][\A p \in Procs :
             (AcceptedBy(p) /\ ScoreOutOfRange(req'[p]))
             => /\ resp'[p] = Unprocessable
                /\ pc'[p] = "idle"
                /\ calls'[p] = <<>>
                /\ store' = store]_vars

\* an update of a stored record to score 11 has been refused, and so has a
\* create or a bulk-create with a score out of range
C19_Witness ==
    /\ \E p \in Procs :
          /\ req[p].op = "update" /\ req[p].patch = PatchOutOfRange
          /\ Stored(req[p].wallet_id)
          /\ resp[p] = Unprocessable /\ calls[p] = <<>>
    /\ \E p \in Procs :
          /\ req[p].op \in {"create", "bulk"} /\ ScoreOutOfRange(req[p])
          /\ resp[p] = Unprocessable /\ calls[p] = <<>>
    /\ \A r \in store : r.score = 5

(***************************************************************************)
(* C20.  get, update and delete with an identifier that is well formed but *)
(* is the id of no stored record answer NotFound (404); the request issues *)
(* its SELECT and no write, and the store stays as it was.                 *)
(***************************************************************************)
C20_AbsentIdNotFound ==
    [][\A p \in Procs :
          ( /\ AcceptedBy(p)
            /\ req'[p].op \in {"get", "update", "delete"}
            /\ ~FailsBinding(req'[p])
            /\ WellFormedIdentifier(req'[p].wallet_id)
            /\ ~Stored(req'[p].wallet_id) )
          => /\ resp'[p] = NotFound
             /\ pc'[p] = "idle"
             /\ calls'[p] = <<"SELECT">>
             /\ store' = store]_vars

\* an update or a delete has been answered NotFound while the table holds a
\* record, for an id that was never issued or whose record is deleted
C20_Witness ==
    \E p \in Procs :
        /\ req[p].op \in {"update", "delete"}
        /\ WellFormedIdentifier(req[p].wallet_id)
        /\ resp[p] = NotFound /\ pc[p] = "idle"
        /\ calls[p] = <<"SELECT">>
        /\ ~Stored(req[p].wallet_id)
        /\ store # {}

(***************************************************************************)
(* C25.  As claimed: the query get_wallets sends binds min_score,          *)
(* max_score, limit and offset as INT64 and, when active_only is set (and  *)
(* only then), is_active as BOOL.  The handler tests isinstance(value,     *)
(* int) first and True is an int, so is_active is bound as INT64.          *)
(***************************************************************************)
TypeBoundAs(query, name) ==
    {query.params[i].type : i \in {j \in 1..Len(query.params) : query.params[j].name = name}}

C25_AsClaimed ==
    [][\A p \in Procs :
          (AcceptedBy(p) /\ req'[p].op = "list" /\ calls'[p] # <<>>)
          => LET query == calls'[p][1] IN
             /\ \A name \in {"min_score", "max_score", "limit", "offset"} :
                   TypeBoundAs(query, name) = {"INT64"}
             /\ TypeBoundAs(query, "is_active")
                   = IF req'[p].q.active_only THEN {"BOOL"} ELSE {}]_vars

(***************************************************************************)
(* C26.  As claimed: every HTML list request is answered with a page whose *)
(* current_page is offset div limit + 1 and at least 1, total_pages at     *)
(* least 1, has_previous iff offset > 0, has_next iff offset + limit <     *)
(* total_count; nothing is raised.  With limit = 0 the division raises     *)
(* ZeroDivisionError outside the try block.                                *)
(***************************************************************************)
C26_AsClaimed ==
    \A p \in Procs :
        (req[p].op = "list_html" /\ pc[p] = "idle")
        => /\ resp[p].status = 200
           /\ resp[p].page.current_page = (req[p].q.offset \div req[p].q.limit) + 1
           /\ resp[p].page.current_page >= 1
           /\ resp[p].page.total_pages >= 1
           /\ resp[p].page.has_previous <=> (req[p].q.offset > 0)
           /\ resp[p].page.has_next
                 <=> (req[p].q.offset + req[p].q.limit < resp[p].page.total_count)

(***************************************************************************)
(* C24.  The insert of a bulk-create of n >= 1 entries adds exactly n      *)
(* records, all with one timestamp as created_at and as last_updated, and  *)
(* answers 201 with n pairwise distinct ids, the i-th being the id of the  *)
(* record that holds the i-th entry.  An empty batch is answered with an   *)
(* empty id list and no storage call.                                      *)
(***************************************************************************)
BulkInserted(p) == pc[p] = "bulk_insert" /\ pc'[p] = "idle"

C24_BulkIdsMatchRecords ==
    [][\A p \in Procs :
          /\ BulkInserted(p)
             => LET wallets == BulkInputs[req[p].body]
                    ids == resp'[p].ids
                    new == store' \ store
                IN /\ Len(wallets) >= 1
                   /\ resp'[p].status = 201
                   /\ Len(ids) = Len(wallets)
                   /\ \A i, j \in 1..Len(ids) : i # j => ids[i] # ids[j]
                   /\ store \subseteq store'
                   /\ Cardinality(new) = Len(wallets)
                   /\ \E t \in 0..MaxClock :
                         \A r \in new : r.created_at = t /\ r.last_updated = t
                   /\ \A i \in 1..Len(ids) :
                         /\ ~Stored(ids[i])
                         /\ \E r \in new :
                               /\ r.id = ids[i]
                               /\ r.address = Lower(wallets[i].address)
                               /\ r.score = wallets[i].score
                               /\ r.is_active = wallets[i].is_active
          /\ ( /\ AcceptedBy(p)
               /\ req'[p].op = "bulk"
               /\ BulkInputs[req'[p].body] = <<>> )
             => /\ resp'[p].status = 201
                /\ resp'[p].ids = <<>>
                /\ pc'[p] = "idle"
                /\ calls'[p] = <<>>
                /\ store' = store]_vars

\* a batch of two different addresses has been answered with the ids of its
\* two records in the order of its entries, and an empty batch with no id
C24_Witness ==
    /\ \E p \in Procs :
          /\ req[p] = [op |-> "bulk", body |-> 3]
          /\ pc[p] = "idle" /\ resp[p].status = 201
          /\ Len(resp[p].ids) = 2
          /\ \E r1, r2 \in store :
                /\ r1.id = resp[p].ids[1] /\ r1.address = AddrB
                /\ r2.id = resp[p].ids[2] /\ r2.address = AddrA /\ ~r2.is_active
                /\ r1.created_at = r2.last_updated
    /\ \E p \in Procs :
          /\ req[p] = [op |-> "bulk", body |-> 1]
          /\ resp[p].status = 201 /\ resp[p].ids = <<>> /\ calls[p] = <<>>

(***************************************************************************)
(* C23.  As claimed: when an update is answered 200 with record r, the     *)
(* store then holds a record with the id of the request whose score,       *)
(* is_active and last_updated are those of r, whatever other requests ran  *)
(* between the handler's SELECT and its UPDATE.  The answer is built from  *)
(* the row the SELECT read: a delete or another update of the record in    *)
(* between leaves the store without such a record.                         *)
(***************************************************************************)
\* this step answers the update of worker p with 200: its UPDATE statement,
\* or its SELECT when the patch is empty
UpdateAnswered(p) ==
    /\ UpdateWritten(p) \/ (AcceptedBy(p) /\ req'[p].op = "update" /\ pc'[p] = "idle")
    /\ resp'[p].status = 200

C23_AsClaimed ==
    [][\A p \in Procs :
          UpdateAnswered(p)
          => \E r \in store' :
                /\ r.id = req'[p].wallet_id
                /\ r.score = resp'[p].wallet[1].score
                /\ r.is_active = resp'[p].wallet[1].is_active
                /\ r.last_updated = resp'[p].wallet[1].last_updated]_vars

(***************************************************************************)
(* C21.  On the JSON API, a storage call that fails is answered 500 with   *)
(* the text of the failure, never with a success, and the store stays as   *)
(* it was; a request that finds no record is answered 404 and a create or  *)
(* bulk-create of a stored address 400, and 500 is the answer of failed    *)
(* calls only.                                                             *)
(***************************************************************************)
LastOf(s) == s[Len(s)]

\* this step is one of the handler of worker p
HandlerStep(p) == AcceptedBy(p) \/ (pc[p] # "idle" /\ pc'[p] # pc[p])

\* in this step a storage call of worker p's request failed
CallFailed(p) ==
    /\ HandlerStep(p)
    /\ calls'[p] # <<>>
    /\ LastOf(calls'[p]) \in Exceptions

C21_FailuresSurfaceAs500 ==
    [][\A p \in Procs :
          /\ CallFailed(p)
             => /\ resp'[p].status = 500
                /\ resp'[p].message = LastOf(calls'[p])
                /\ pc'[p] = "idle"
                /\ store' = store
          /\ (AcceptedBy(p) /\ ~CallFailed(p))
             => /\ ( /\ req'[p].op \in {"get", "update", "delete"}
                     /\ ~Stored(req'[p].wallet_id) )
                   => resp'[p] = NotFound
                /\ ( /\ req'[p].op = "search"
                     /\ ~\E r \in store : r.address = Lower(req'[p].address) )
                   => resp'[p] = NotFound
                /\ ( /\ req'[p].op = "create"
                     /\ \E r \in store : r.address = Lower(req'[p].wallet_data.address) )
                   => resp'[p] = Conflict
                /\ ( /\ req'[p].op = "bulk"
                     /\ BatchDuplicatesStored(req'[p].body) )
                   => resp'[p] = Conflict
          /\ (HandlerStep(p) /\ resp'[p].status = 500) => CallFailed(p)]_vars

\* the UPDATE of an update raised Timeout: the request was answered 500 with
\* that text and the record is as it was, while a create of its address was
\* answered 400
C21_Witness ==
    \E p, q \in Procs :
        /\ req[p].op = "update"
        /\ calls[p] = <<"SELECT", "UPDATE", "Timeout">>
        /\ resp[p] = ExceptException("Update failed", "Timeout")
        /\ \E r \in store : r.id = req[p].wallet_id /\ r.score = 5
        /\ req[q].op = "create" /\ resp[q] = Conflict

(***************************************************************************)
(* C22.  As claimed: when a storage call of an HTML read path fails, the   *)
(* list handler renders an empty list with total_count 0 and the search    *)
(* handler renders the not-found partial, the answer of a search that      *)
(* finds no record; no error is answered.  With limit = 0 the list handler *)
(* raises ZeroDivisionError after its except clause.                       *)
(***************************************************************************)
\* in this step a storage call of worker p's HTML request raised
HtmlCallFailed(p) ==
    /\ HandlerStep(p)
    /\ req'[p].op \in {"list_html", "search_html"}
    /\ calls'[p] # <<>>
    /\ LastOf(calls'[p]).statement = "raise"

C22_AsClaimed ==
    [][\A p \in Procs :
          HtmlCallFailed(p)
          => /\ pc'[p] = "idle"
             /\ resp'[p].status = 200
             /\ store' = store
             /\ req'[p].op = "list_html"
                => /\ resp'[p].wallet = <<>>
                   /\ resp'[p].page.total_count = 0
             /\ req'[p].op = "search_html"
                => /\ resp'[p].detail = "partials/wallet_not_found.html"
                   /\ resp'[p].address = req'[p].address]_vars
====
